---- MODULE Spec2Model ----
(***************************************************************************)
(* Tournament core of backend.rtms: bracket builders, group builder,       *)
(* round-robin generator and the score / winner resolver, modelled as a    *)
(* state machine over one division.                                        *)
(*                                                                         *)
(* A player is a positive integer, NoPlayer (0) is a NULL foreign key.     *)
(* `pending` counts the involvements awaiting approval, `calls` holds the  *)
(* requests in flight when handlers are interleaved.                       *)
(* Involvement i (1..approved) has player i and, in a doubles division,    *)
(* partner PartnerOffset + i.  A match is a record, its primary key is its *)
(* index in the sequence `matches`; next_match = 0 is a NULL next_match.   *)
(***************************************************************************)
EXTENDS Integers, Sequences, FiniteSets, TLC

(* ---- bounds of the model ---- *)
MaxN == 11             \* approved involvements in the builder specification
MaxPlayN == 3          \* approved involvements in the resolver specification
FullShuffleMax == 2    \* up to this length every permutation is a shuffle outcome
MaxSetRows == 4        \* Set rows of a division in the resolver specification
MaxCancelled == 1      \* cancelled matches of a division in the resolver specification

(* ---- program constants ---- *)
NoPlayer == 0
NoMatch == 0
PartnerOffset == 20
GrandFinalRound == 999
MinParticipantsRequired == 2
MinGroupSize == 3
MaxGroupSize == 5
DefaultMinPerGroup == 3
DefaultMaxPerGroup == 5

KNOCKOUT == "knockout"
DOUBLE_SLASH == "double_slash"
ROUND_ROBIN == "round_robin"
ROUND_ROBIN_KNOCKOUT == "round_robin_knockout"
SINGLE == "single"
DOUBLES == "doubles"
PENDING == "pending"
IN_PROGRESS == "in_progress"
COMPLETED == "completed"
CANCELLED == "cancelled"
PLAYER1 == "player1"
PLAYER2 == "player2"
NoWinner == "none"

VARIABLES division, approved, pending, matches, groups, result, calls

vars == <<division, approved, pending, matches, groups, result, calls>>

(* ---- small helpers ---- *)
Range(s) == {s[i] : i \in 1..Len(s)}

Min2(a, b) == IF a < b THEN a ELSE b

\* math.ceil(a / b) for positive b
CeilDiv(a, b) == (a + b - 1) \div b

(***************************************************************************)
(* random.shuffle: the outcome is one permutation of the positions.  Up to *)
(* FullShuffleMax elements every permutation is drawn; above that the      *)
(* rotations (a family closed under composition).                          *)
(***************************************************************************)
Rotation(n, k) == [i \in 1..n |-> ((i - 1 + k) % n) + 1]

Shuffles(n) ==
    IF n = 0 THEN {<<>>}
    ELSE IF n <= FullShuffleMax THEN Permutations(1..n)
    ELSE {Rotation(n, k) : k \in 0..(n - 1)}

\* the list l reordered by the shuffle outcome perm
Shuffled(l, perm) == [i \in 1..Len(l) |-> l[perm[i]]]

(* ---- approved involvements of the division ---- *)
\* involvement.player / involvement.partner of approved involvement i
InvPlayer(i) == i

InvPartner(i) == PartnerOffset + i

\* get_participants: one entry per approved involvement, in query order
get_participants(n, ptype) ==
    [i \in 1..n |-> [player1 |-> InvPlayer(i),
                     partner1 |-> IF ptype = DOUBLES THEN InvPartner(i) ELSE NoPlayer]]

(* ---- Match rows ---- *)
NoSets == [n \in {} |-> [player1_score |-> 0, player2_score |-> 0, winner |-> NoWinner]]

MatchCode(prefix, group, num) == [prefix |-> prefix, group |-> group, num |-> num]

NewMatch(code, round_number, p1, p2, pa1, pa2, losers, ptype, max_sets, points_per_set) ==
    [match_code |-> code, round_number |-> round_number, is_losers_bracket |-> losers,
     match_type |-> IF ptype = DOUBLES THEN DOUBLES ELSE "singles",
     player1 |-> p1, player2 |-> p2, partner1 |-> pa1, partner2 |-> pa2,
     next_match |-> NoMatch, winner |-> NoPlayer, winner_partner |-> NoPlayer,
     status |-> PENDING, max_sets |-> max_sets, points_per_set |-> points_per_set,
     scheduled_at |-> 0, location |-> 0, sets |-> NoSets]

\* Match.clean: placeholder rows may have empty player slots
IsPlaceholder(m) ==
    /\ m.status = PENDING
    /\ \/ m.round_number > 1
       \/ m.round_number = GrandFinalRound
       \/ (m.round_number = 1 /\ m.is_losers_bracket)

\* Match.full_clean raises nothing for row m: the field validators of
\* max_sets and points_per_set, then Match.clean (the players of a generated
\* row are approved players of the division, so that check always passes)
CleanOk(m, div) ==
    /\ m.max_sets \in 3..10
    /\ m.points_per_set \in 1..50
    /\ div.is_published
    /\ IF m.match_type = "singles"
       THEN m.partner1 = NoPlayer /\ m.partner2 = NoPlayer
       ELSE IsPlaceholder(m) \/ (/\ m.player1 # NoPlayer /\ m.player2 # NoPlayer
                                 /\ m.partner1 # NoPlayer /\ m.partner2 # NoPlayer)
    /\ ~(m.player1 = NoPlayer /\ m.player2 = NoPlayer /\ ~IsPlaceholder(m))

(***************************************************************************)
(* Builder state: the rows written so far inside the transaction (ms), the *)
(* two code counters of the service instance, and whether a save raised.   *)
(***************************************************************************)
BuilderState(ms, div, max_sets, points_per_set) ==
    [ms |-> ms, match_counter |-> 1, loser_match_counter |-> 1, failed |-> FALSE,
     div |-> div, max_sets |-> max_sets, points_per_set |-> points_per_set]

\* a creation that accepts a match code the division already has
create_match_AnyCode(st, code, round_number, p1, p2, pa1, pa2, losers) ==
    LET m == NewMatch(code, round_number, p1, p2, pa1, pa2, losers,
                      st.div.participant_type, st.max_sets, st.points_per_set)
    IN [st EXCEPT !.ms = Append(st.ms, m), !.failed = st.failed \/ ~CleanOk(m, st.div)]

\* Match.objects.create inside create_match: full_clean (clean and the
\* unique (division, match_code) check), then the row is inserted
create_match(st, code, round_number, p1, p2, pa1, pa2, losers) ==
    LET m == NewMatch(code, round_number, p1, p2, pa1, pa2, losers,
                      st.div.participant_type, st.max_sets, st.points_per_set)
        ok == CleanOk(m, st.div) /\ \A k \in 1..Len(st.ms) : st.ms[k].match_code # code
    IN [st EXCEPT !.ms = Append(st.ms, m), !.failed = st.failed \/ ~ok]

\* generate_match_code followed by create_match (the counter is consumed)
create_coded_match(st, round_number, p1, p2, pa1, pa2, losers) ==
    IF losers
    THEN [create_match(st, MatchCode("LM", 0, st.loser_match_counter), round_number,
                       p1, p2, pa1, pa2, TRUE)
            EXCEPT !.loser_match_counter = st.loser_match_counter + 1]
    ELSE [create_match(st, MatchCode("M", 0, st.match_counter), round_number,
                       p1, p2, pa1, pa2, FALSE)
            EXCEPT !.match_counter = st.match_counter + 1]

\* x.next_match = target; x.save()
set_next_match(st, id, target) ==
    [st EXCEPT !.ms[id].next_match = target,
               !.failed = st.failed \/ ~CleanOk(st.ms[id], st.div)]

\* primary key of the row created last
LastId(st) == Len(st.ms)

(***************************************************************************)
(* Single-elimination builder (generate_single_elimination_bracket).       *)
(* `sh` is the shuffled participant list.                                  *)
(***************************************************************************)
\* power_of_2 = 1; while power_of_2 * 2 <= n: power_of_2 *= 2
RECURSIVE PowerOf2Loop(_, _)
PowerOf2Loop(power_of_2, n) ==
    IF power_of_2 * 2 <= n THEN PowerOf2Loop(power_of_2 * 2, n) ELSE power_of_2

LargestPowerOf2(n) == PowerOf2Loop(1, n)

\* math.ceil(math.log2(power_of_2)) if power_of_2 > 1 else 1
RECURSIVE Log2(_)
Log2(k) == IF k <= 1 THEN 0 ELSE 1 + Log2(k \div 2)

\* a builder that adds one round too many
NumRounds_OneTooMany(power_of_2) == IF power_of_2 > 1 THEN Log2(power_of_2) + 1 ELSE 1

NumRounds(power_of_2) == IF power_of_2 > 1 THEN Log2(power_of_2) ELSE 1

\* shuffled[i] if i < len(shuffled) else None   (i is a 1-based position here)
ParticipantAt(sh, i) ==
    IF i <= Len(sh) THEN sh[i] ELSE [player1 |-> NoPlayer, partner1 |-> NoPlayer]

\* a preliminary round of byes: each match gets one participant only
RECURSIVE PreliminaryRound_Byes(_, _, _, _)
PreliminaryRound_Byes(st, sh, match_idx, preliminary_matches_needed) ==
    IF match_idx >= preliminary_matches_needed THEN st
    ELSE LET p1 == ParticipantAt(sh, 2 * match_idx + 1)
         IN PreliminaryRound_Byes(
                create_coded_match(st, 1, p1.player1, NoPlayer,
                                   p1.partner1, NoPlayer, FALSE),
                sh, match_idx + 1, preliminary_matches_needed)

\* the preliminary round: match_idx in range(preliminary_matches_needed)
RECURSIVE PreliminaryRound(_, _, _, _)
PreliminaryRound(st, sh, match_idx, preliminary_matches_needed) ==
    IF match_idx >= preliminary_matches_needed THEN st
    ELSE LET p1 == ParticipantAt(sh, 2 * match_idx + 1)
             p2 == ParticipantAt(sh, 2 * match_idx + 2)
         IN PreliminaryRound(
                create_coded_match(st, 1, p1.player1, p2.player1,
                                   p1.partner1, p2.partner1, FALSE),
                sh, match_idx + 1, preliminary_matches_needed)

\* the first main round: direct participants fill player1 then player2 of
\* match after match; direct_participant_idx is the number already placed
RECURSIVE FirstRound(_, _, _, _, _, _)
FirstRound(st, direct, direct_participant_idx, match_idx, needed, round_number) ==
    IF match_idx >= needed THEN st
    ELSE LET has1 == direct_participant_idx < Len(direct)
             idx1 == IF has1 THEN direct_participant_idx + 1 ELSE direct_participant_idx
             has2 == idx1 < Len(direct)
             idx2 == IF has2 THEN idx1 + 1 ELSE idx1
             p1 == IF has1 THEN direct[direct_participant_idx + 1]
                   ELSE [player1 |-> NoPlayer, partner1 |-> NoPlayer]
             p2 == IF has2 THEN direct[idx1 + 1]
                   ELSE [player1 |-> NoPlayer, partner1 |-> NoPlayer]
         IN FirstRound(
                create_coded_match(st, round_number, p1.player1, p2.player1,
                                   p1.partner1, p2.partner1, FALSE),
                direct, idx2, match_idx + 1, needed, round_number)

\* "Connect preliminary matches to first round matches": one pass over the
\* first-round matches, at most one preliminary match linked per match
RECURSIVE ConnectPreliminary(_, _, _, _, _)
ConnectPreliminary(st, prelim, first, k, prelim_match_idx) ==
    IF k > Len(first) \/ prelim_match_idx >= Len(prelim) THEN st
    ELSE LET frm == st.ms[first[k]]
         IN IF frm.player1 = NoPlayer \/ frm.player2 = NoPlayer
            THEN ConnectPreliminary(
                     set_next_match(st, prelim[prelim_match_idx + 1], first[k]),
                     prelim, first, k + 1, prelim_match_idx + 1)
            ELSE ConnectPreliminary(st, prelim, first, k + 1, prelim_match_idx)

\* one later round: for i in range(0, len(previous), 2) create a match and
\* point previous[i] and previous[i + 1] (if any) to it
RECURSIVE NextRound(_, _, _, _, _)
NextRound(st, previous, i, round_num, current) ==
    IF i >= Len(previous) THEN [st |-> st, current |-> current]
    ELSE LET st1 == create_coded_match(st, round_num, NoPlayer, NoPlayer,
                                       NoPlayer, NoPlayer, FALSE)
             id == LastId(st1)
             st2 == set_next_match(st1, previous[i + 1], id)
             st3 == IF i + 1 < Len(previous)
                    THEN set_next_match(st2, previous[i + 2], id) ELSE st2
         IN NextRound(st3, previous, i + 2, round_num, Append(current, id))

\* later rounds that all carry the number of the first main round
RECURSIVE SubsequentRounds_SameRound(_, _, _, _, _)
SubsequentRounds_SameRound(st, previous, round_offset, num_rounds, main_bracket_start_round) ==
    IF round_offset >= num_rounds THEN st
    ELSE LET r == NextRound(st, previous, 0, main_bracket_start_round, <<>>)
         IN SubsequentRounds_SameRound(r.st, r.current, round_offset + 1, num_rounds,
                                       main_bracket_start_round)

\* for round_offset in range(1, num_rounds)
RECURSIVE SubsequentRounds(_, _, _, _, _)
SubsequentRounds(st, previous, round_offset, num_rounds, main_bracket_start_round) ==
    IF round_offset >= num_rounds THEN st
    ELSE LET r == NextRound(st, previous, 0,
                            main_bracket_start_round + round_offset, <<>>)
         IN SubsequentRounds(r.st, r.current, round_offset + 1, num_rounds,
                             main_bracket_start_round)

IdsFrom(a, b) == [k \in 1..(b - a) |-> a + k]

generate_single_elimination_bracket(st, sh) ==
    LET num_participants == Len(sh)
        power_of_2 == LargestPowerOf2(num_participants)
        preliminary_matches_needed == num_participants - power_of_2
        st1 == PreliminaryRound(st, sh, 0, preliminary_matches_needed)
        preliminary_matches == IdsFrom(Len(st.ms), Len(st1.ms))
        main_bracket_start_round == IF preliminary_matches_needed > 0 THEN 2 ELSE 1
        first_round_matches_needed == power_of_2 \div 2
        direct_participants ==
            SubSeq(sh, 2 * preliminary_matches_needed + 1, num_participants)
        st2 == FirstRound(st1, direct_participants, 0, 0,
                          first_round_matches_needed, main_bracket_start_round)
        first_round_matches == IdsFrom(Len(st1.ms), Len(st2.ms))
        st3 == IF preliminary_matches_needed > 0
               THEN ConnectPreliminary(st2, preliminary_matches, first_round_matches, 1, 0)
               ELSE st2
    IN IF num_participants <= 1 THEN st
       ELSE SubsequentRounds(st3, first_round_matches, 1, NumRounds(power_of_2),
                             main_bracket_start_round)

(***************************************************************************)
(* Double-elimination builder.                                             *)
(***************************************************************************)
\* max((m.round_number for m in ids), default=0)
MaxRound(ms, ids) ==
    IF Len(ids) = 0 THEN 0
    ELSE CHOOSE r \in {ms[ids[k]].round_number : k \in 1..Len(ids)} :
             \A k \in 1..Len(ids) : ms[ids[k]].round_number <= r

\* _generate_winners_bracket: the counter is reset, then the single builder
_generate_winners_bracket(st, sh) ==
    generate_single_elimination_bracket([st EXCEPT !.match_counter = 1], sh)

\* losers round 1: for i in range(0, len(losers_from_first_round), 2)
RECURSIVE FirstLosersRound(_, _, _, _)
FirstLosersRound(st, i, n, current) ==
    IF i >= n THEN [st |-> st, current |-> current]
    ELSE LET st1 == create_coded_match(st, 1, NoPlayer, NoPlayer, NoPlayer, NoPlayer, TRUE)
         IN FirstLosersRound(st1, i + 2, n, Append(current, LastId(st1)))

\* one later losers round: one match per match of the previous losers round,
\* the previous losers match is pointed to it
RECURSIVE LosersRound(_, _, _, _, _)
LosersRound(st, previous_losers_round, i, losers_round_num, current) ==
    IF i >= Len(previous_losers_round) THEN [st |-> st, current |-> current]
    ELSE LET st1 == create_coded_match(st, losers_round_num, NoPlayer, NoPlayer,
                                       NoPlayer, NoPlayer, TRUE)
             st2 == set_next_match(st1, previous_losers_round[i + 1], LastId(st1))
         IN LosersRound(st2, previous_losers_round, i + 1, losers_round_num,
                        Append(current, LastId(st1)))

\* for winners_round_num in range(2, max_winners_round + 1); `previous` is
\* round_matches.get(losers_round_num - 1, [])
RECURSIVE LaterLosersRounds(_, _, _, _)
LaterLosersRounds(st, previous, winners_round_num, max_winners_round) ==
    IF winners_round_num > max_winners_round THEN st
    ELSE LET r == LosersRound(st, previous, 0, winners_round_num, <<>>)
         IN LaterLosersRounds(r.st, r.current, winners_round_num + 1, max_winners_round)

\* for match in final_losers_round: match.next_match = losers_final
RECURSIVE PointAll(_, _, _, _)
PointAll(st, ids, k, target) ==
    IF k > Len(ids) THEN st
    ELSE PointAll(set_next_match(st, ids[k], target), ids, k + 1, target)

\* a losers bracket left without its consolidation match
Consolidate_Never(st, losers_matches) == st

\* the consolidation step at the end of _generate_losers_bracket
Consolidate(st, losers_matches) ==
    LET final_losers_round_num == MaxRound(st.ms, losers_matches)
        InFinal(id) == st.ms[id].round_number = final_losers_round_num
        final_losers_round == SelectSeq(losers_matches, InFinal)
    IN IF final_losers_round_num > 0 /\ Len(final_losers_round) > 1
       THEN LET st1 == create_coded_match(st, final_losers_round_num + 1, NoPlayer,
                                          NoPlayer, NoPlayer, NoPlayer, TRUE)
            IN PointAll(st1, final_losers_round, 1, LastId(st1))
       ELSE st

_generate_losers_bracket(st, winners_matches) ==
    LET st0 == [st EXCEPT !.loser_match_counter = 1]
        max_winners_round == MaxRound(st0.ms, winners_matches)
        InRound1(id) == st0.ms[id].round_number = 1
        first_winners_round == SelectSeq(winners_matches, InRound1)
        HasLoser(id) == st0.ms[id].player2 # NoPlayer /\ st0.ms[id].status # COMPLETED
        losers_from_first_round == SelectSeq(first_winners_round, HasLoser)
        r1 == FirstLosersRound(st0, 0, Len(losers_from_first_round), <<>>)
        st2 == LaterLosersRounds(r1.st, r1.current, 2, max_winners_round)
    IN Consolidate(st2, IdsFrom(Len(st.ms), Len(st2.ms)))

\* the losers final picked by _create_grand_final
LosersFinal(ms, losers_matches) ==
    LET max_loser_round == MaxRound(ms, losers_matches)
        InMax(id) == ms[id].round_number = max_loser_round
        losers_final_candidates == SelectSeq(losers_matches, InMax)
        Unlinked(id) == ms[id].next_match = NoMatch
        unlinked == SelectSeq(losers_final_candidates, Unlinked)
    IN IF Len(losers_matches) = 0 THEN NoMatch
       ELSE IF Len(unlinked) > 0 THEN unlinked[1]
       ELSE IF Len(losers_final_candidates) > 0 THEN losers_final_candidates[1]
       ELSE NoMatch

_create_grand_final(st, winners_matches, losers_matches) ==
    LET max_winners_round == MaxRound(st.ms, winners_matches)
        InMax(id) == st.ms[id].round_number = max_winners_round
        winners_final_candidates == SelectSeq(winners_matches, InMax)
        losers_final == LosersFinal(st.ms, losers_matches)
    IN IF Len(winners_final_candidates) = 0 THEN st
       ELSE LET winners_final == winners_final_candidates[1]
                st1 == create_match(st, MatchCode("GF", 0, 1), GrandFinalRound,
                                    NoPlayer, NoPlayer, NoPlayer, NoPlayer, FALSE)
                grand_final == LastId(st1)
                st2 == set_next_match(st1, winners_final, grand_final)
            IN IF losers_final # NoMatch
               THEN set_next_match(st2, losers_final, grand_final) ELSE st2

\* generate_double_elimination_bracket.  The list is shuffled here and once
\* more inside the winners-bracket builder; two shuffles in a row leave the
\* list in one shuffle outcome, which is the `sh` given here
GrandFinalStage(st1, st2, winners_matches) ==
    _create_grand_final(st2, winners_matches, IdsFrom(Len(st1.ms), Len(st2.ms)))

LosersStage(st1, winners_matches) ==
    GrandFinalStage(st1, _generate_losers_bracket(st1, winners_matches), winners_matches)

WinnersStage(st, st1) == LosersStage(st1, IdsFrom(Len(st.ms), Len(st1.ms)))

generate_double_elimination_bracket(st, sh) ==
    WinnersStage(st, _generate_winners_bracket(st, sh))

(***************************************************************************)
(* Group builder (GroupGenerationService).                                 *)
(***************************************************************************)
NewStanding(involvement) ==
    [involvement |-> involvement, matches_played |-> 0, matches_won |-> 0,
     matches_lost |-> 0, sets_won |-> 0, sets_lost |-> 0, points |-> 0,
     position_in_group |-> 0, global_position |-> 0]

\* a group count rounded down instead of up
NumGroups_Floor(num_participants, min_per_group, max_per_group) ==
    LET num_groups == num_participants \div max_per_group
    IN IF num_participants <= num_groups * min_per_group
       THEN CeilDiv(num_participants, min_per_group)
       ELSE num_groups

\* num_groups of distribute_participants
NumGroups(num_participants, min_per_group, max_per_group) ==
    LET num_groups == CeilDiv(num_participants, max_per_group)
    IN IF num_participants <= num_groups * min_per_group
       THEN CeilDiv(num_participants, min_per_group)
       ELSE num_groups

\* participants_per_group of one iteration, clamped to [min, max]
ParticipantsPerGroup(remaining_participants, remaining_groups, min_per_group, max_per_group) ==
    LET participants_per_group == remaining_participants \div remaining_groups
    IN IF participants_per_group < min_per_group THEN min_per_group
       ELSE IF participants_per_group > max_per_group THEN max_per_group
       ELSE participants_per_group

\* shuffled[a : a + k] with 0-based a: a Python slice stops at the end
Slice(l, a, k) == SubSeq(l, a + 1, Min2(a + k, Len(l)))

RECURSIVE DistributeLoop(_, _, _, _, _, _, _)
DistributeLoop(sh, group_idx, num_groups, participant_index, min_per_group, max_per_group, acc) ==
    IF group_idx >= num_groups THEN acc
    ELSE LET k == ParticipantsPerGroup(Len(sh) - participant_index,
                                       num_groups - group_idx,
                                       min_per_group, max_per_group)
         IN DistributeLoop(sh, group_idx + 1, num_groups, participant_index + k,
                           min_per_group, max_per_group,
                           Append(acc, Slice(sh, participant_index, k)))

distribute_participants(sh, min_per_group, max_per_group) ==
    DistributeLoop(sh, 0, NumGroups(Len(sh), min_per_group, max_per_group), 0,
                   min_per_group, max_per_group, <<>>)

\* TournamentGroup.validate_participant_count raises nothing
validate_participant_count(group) ==
    Len(group.standings) >= MinGroupSize /\ Len(group.standings) <= MaxGroupSize

\* the groups created by generate_groups from the distributed lists
CreatedGroups(participant_groups) ==
    [g \in 1..Len(participant_groups) |->
        [group_number |-> g,
         standings |-> [k \in 1..Len(participant_groups[g]) |->
                           NewStanding(participant_groups[g][k])]]]

\* GroupGenerationService.validate_division: the first check that raises
GroupValidationError(div, n, existing_groups, min_per_group, max_per_group) ==
    IF div.format # ROUND_ROBIN_KNOCKOUT THEN "NOT_ROUND_ROBIN_KNOCKOUT"
    ELSE IF ~div.is_published THEN "NOT_PUBLISHED"
    ELSE IF n < min_per_group THEN "INSUFFICIENT_APPROVED_PLAYERS"
    ELSE IF min_per_group < 3 THEN "MIN_PER_GROUP_TOO_SMALL"
    ELSE IF max_per_group > 5 THEN "MAX_PER_GROUP_TOO_LARGE"
    ELSE IF min_per_group > max_per_group THEN "MIN_GREATER_THAN_MAX"
    ELSE IF Len(existing_groups) > 0 THEN "GROUPS_ALREADY_EXIST"
    ELSE "ok"

(***************************************************************************)
(* Round-robin generator (generate_group_phase_matches, no scheduling      *)
(* parameters given).                                                      *)
(***************************************************************************)
\* a generator that pairs involvements[i] with the entry before involvements[j]
create_group_match_WrongOpponent(st, group, i, j, match_number, ptype) ==
    LET inv1 == group.standings[i + 1].involvement
        inv2 == group.standings[j].involvement
        partner1 == IF ptype = DOUBLES THEN InvPartner(inv1) ELSE NoPlayer
        partner2 == IF ptype = DOUBLES THEN InvPartner(inv2) ELSE NoPlayer
    IN create_match(st, MatchCode("G", group.group_number, match_number),
                    -group.group_number, InvPlayer(inv1), InvPlayer(inv2),
                    partner1, partner2, FALSE)

\* the body of the pair loop: the match of involvements[i] and involvements[j]
create_group_match(st, group, i, j, match_number, ptype) ==
    LET inv1 == group.standings[i + 1].involvement
        inv2 == group.standings[j + 1].involvement
        partner1 == IF ptype = DOUBLES THEN InvPartner(inv1) ELSE NoPlayer
        partner2 == IF ptype = DOUBLES THEN InvPartner(inv2) ELSE NoPlayer
    IN create_match(st, MatchCode("G", group.group_number, match_number),
                    -group.group_number, InvPlayer(inv1), InvPlayer(inv2),
                    partner1, partner2, FALSE)

\* for j in range(i + 1, num_participants)
RECURSIVE GroupInnerLoop(_, _, _, _, _, _)
GroupInnerLoop(st, group, i, j, match_number, ptype) ==
    IF j >= Len(group.standings) THEN [st |-> st, match_number |-> match_number]
    ELSE GroupInnerLoop(create_group_match(st, group, i, j, match_number, ptype),
                        group, i, j + 1, match_number + 1, ptype)

\* for i in range(num_participants)
RECURSIVE GroupOuterLoop(_, _, _, _, _)
GroupOuterLoop(st, group, i, match_number, ptype) ==
    IF i >= Len(group.standings) THEN st
    ELSE LET r == GroupInnerLoop(st, group, i, i + 1, match_number, ptype)
         IN GroupOuterLoop(r.st, group, i + 1, r.match_number, ptype)

\* for group in groups
RECURSIVE generate_group_phase_matches(_, _, _)
generate_group_phase_matches(st, gs, g) ==
    IF g > Len(gs) THEN st
    ELSE generate_group_phase_matches(
             GroupOuterLoop(st, gs[g], 0, 1, st.div.participant_type), gs, g + 1)

(***************************************************************************)
(* Operations on the division.                                             *)
(***************************************************************************)
Formats == {KNOCKOUT, DOUBLE_SLASH, ROUND_ROBIN, ROUND_ROBIN_KNOCKOUT}

NoResult == [op |-> "none", ok |-> TRUE, error |-> "ok", arg |-> <<>>]

Outcome(op, error, arg) == [op |-> op, ok |-> (error = "ok"), error |-> error, arg |-> arg]

\* MatchBracketGenerationService.validate_division, then validate_participants,
\* then the format dispatch of execute: the first check that raises
BracketValidationError(div, existing, participants) ==
    IF ~div.is_published THEN "ERROR_DIVISION_NOT_PUBLISHED"
    ELSE IF div.format \notin {KNOCKOUT, DOUBLE_SLASH, ROUND_ROBIN_KNOCKOUT}
         THEN "ERROR_INVALID_MATCH_FORMAT"
    ELSE IF Len(existing) > 0 THEN "ERROR_DIVISION_HAS_EXISTING_MATCHES"
    ELSE IF Len(participants) < MinParticipantsRequired
         THEN "ERROR_INSUFFICIENT_PLAYERS_FOR_GENERATION"
    ELSE IF div.format = ROUND_ROBIN_KNOCKOUT THEN "ERROR_INVALID_MATCH_FORMAT"
    ELSE "ok"

\* MatchBracketGenerationService.execute (transaction.atomic): every row of
\* the bracket is committed, or none when a check or a save raises
\* a failed generation that keeps the rows it had written
CommitBracket_Partial(op, st) ==
    IF st.failed
    THEN /\ matches' = st.ms
         /\ result' = Outcome(op, "ERROR_SAVE_RAISED", <<>>)
    ELSE /\ matches' = st.ms
         /\ result' = Outcome(op, "ok", <<>>)

\* @transaction.atomic of execute: the rows are committed together, or the
\* exception of a creation leaves none of them
CommitBracket(op, st) ==
    IF st.failed
    THEN /\ matches' = matches
         /\ result' = Outcome(op, "ERROR_SAVE_RAISED", <<>>)
    ELSE /\ matches' = st.ms
         /\ result' = Outcome(op, "ok", <<>>)

\* the transaction of the endpoints generate-group-phase and
\* generate-knockout-from-standings: a batch is persisted atomically
CommitView(op, st) ==
    IF st.failed
    THEN /\ matches' = matches
         /\ result' = Outcome(op, "ERROR_SAVE_RAISED", <<>>)
    ELSE /\ matches' = st.ms
         /\ result' = Outcome(op, "ok", <<>>)

GenerateBracket(max_sets, points_per_set) ==
    LET participants == get_participants(approved, division.participant_type)
        error == BracketValidationError(division, matches, participants)
        st0 == BuilderState(matches, division, max_sets, points_per_set)
    IN /\ \/ /\ error # "ok"
             /\ matches' = matches
             /\ result' = Outcome("generate_bracket", error, <<>>)
          \/ /\ error = "ok"
             /\ division.format = KNOCKOUT
             /\ \E perm \in Shuffles(approved) :
                   CommitBracket("generate_bracket",
                                 generate_single_elimination_bracket(
                                     st0, Shuffled(participants, perm)))
          \/ /\ error = "ok"
             /\ division.format = DOUBLE_SLASH
             /\ \E perm \in Shuffles(approved) :
                   CommitBracket("generate_bracket",
                                 generate_double_elimination_bracket(
                                     st0, Shuffled(participants, perm)))
       /\ UNCHANGED <<division, approved, pending, groups, calls>>

\* GroupGenerationService.execute (transaction.atomic)
GenerateGroups(min_per_group, max_per_group) ==
    LET error == GroupValidationError(division, approved, groups,
                                      min_per_group, max_per_group)
        arg == <<min_per_group, max_per_group>>
        participants == [i \in 1..approved |-> i]
    IN /\ \/ /\ error # "ok"
             /\ groups' = groups
             /\ result' = Outcome("generate_groups", error, arg)
          \/ /\ error = "ok"
             /\ \E perm \in Shuffles(approved) :
                   LET created == CreatedGroups(distribute_participants(
                                      Shuffled(participants, perm),
                                      min_per_group, max_per_group))
                   IN IF \E g \in 1..Len(created) : ~validate_participant_count(created[g])
                      THEN /\ groups' = groups
                           /\ result' = Outcome("generate_groups",
                                                "INVALID_PARTICIPANT_COUNT", arg)
                      ELSE /\ groups' = created
                           /\ result' = Outcome("generate_groups", "ok", arg)
       /\ UNCHANGED <<division, approved, pending, matches, calls>>

\* generate_group_phase_matches over the division's groups
GenerateGroupPhase(max_sets, points_per_set) ==
    LET st == generate_group_phase_matches(
                  BuilderState(matches, division, max_sets, points_per_set), groups, 1)
    IN /\ Len(groups) > 0
       /\ CommitView("generate_group_phase", st)
       /\ UNCHANGED <<division, approved, pending, groups, calls>>

(***************************************************************************)
(* Specification of the builders: any division, any approved count.       *)
(***************************************************************************)
Init ==
    /\ division \in [format : Formats, participant_type : {SINGLE, DOUBLES},
                     is_published : BOOLEAN]
    /\ approved \in 0..MaxN
    /\ pending = 0
    /\ matches = <<>>
    /\ groups = <<>>
    /\ calls = <<>>
    /\ result = NoResult

BuildBracket == \E max_sets \in {3, 5} : GenerateBracket(max_sets, 15)

BuildGroups == \E min_per_group \in 2..5, max_per_group \in 3..6 :
                   GenerateGroups(min_per_group, max_per_group)

BuildGroupPhase == GenerateGroupPhase(5, 15)

Next == BuildBracket \/ BuildGroups \/ BuildGroupPhase

Spec == Init /\ [][Next]_vars

(***************************************************************************)
(* Properties of the builders.                                             *)
(***************************************************************************)
MatchIds == 1..Len(matches)

WinnersIds == {i \in MatchIds : ~matches[i].is_losers_bracket
                                /\ matches[i].round_number # GrandFinalRound}

LosersIds == {i \in MatchIds : matches[i].is_losers_bracket}

GrandFinalIds == {i \in MatchIds : matches[i].round_number = GrandFinalRound}

Feeders(b) == {i \in MatchIds : matches[i].next_match = b}

EmptySlots(m) == (IF m.player1 = NoPlayer THEN 1 ELSE 0)
                 + (IF m.player2 = NoPlayer THEN 1 ELSE 0)

BracketBuilt(format) == division.format = format /\ Len(matches) > 0

\* C1: for N >= 2 the single-elimination builder creates exactly N - 1
\* matches, and the winners bracket of a double elimination has exactly
\* N - 1 matches; the builder does not fail on a valid division.
C1_MatchCount ==
    /\ BracketBuilt(KNOCKOUT) => Len(matches) = approved - 1
    /\ BracketBuilt(DOUBLE_SLASH) => Cardinality(WinnersIds) = approved - 1
    /\ (result.op = "generate_bracket" /\ division.is_published
        /\ division.format \in {KNOCKOUT, DOUBLE_SLASH} /\ approved >= 2)
          => (result.ok \/ result.error = "ERROR_DIVISION_HAS_EXISTING_MATCHES")

C1_Witness ==
    /\ BracketBuilt(DOUBLE_SLASH) /\ approved = 7
    /\ result.op = "generate_bracket" /\ result.ok
    /\ Cardinality(WinnersIds) = 6

\* C2: after the single-elimination builder every preliminary-round match
\* points to a first-main-round match, and every first-main-round match has
\* as many preliminary matches pointing to it as it has empty player slots.
HasPreliminary == approved # LargestPowerOf2(approved)

C2_PreliminaryLinked ==
    (BracketBuilt(KNOCKOUT) /\ HasPreliminary) =>
        /\ \A i \in MatchIds : matches[i].round_number = 1 =>
              /\ matches[i].next_match # NoMatch
              /\ matches[matches[i].next_match].round_number = 2
        /\ \A b \in MatchIds : matches[b].round_number = 2 =>
              Cardinality({i \in Feeders(b) : matches[i].round_number = 1})
                  = EmptySlots(matches[b])

\* C8: a double-elimination bracket has exactly one grand final (code GF1,
\* round 999, not in the losers bracket, both player slots empty, no
\* next_match) and exactly two matches point to it: the winners-bracket
\* final and the last losers-bracket match.
LastOf(ids) == {i \in ids : \A k \in ids : matches[k].round_number <= matches[i].round_number}

C8_GrandFinal ==
    BracketBuilt(DOUBLE_SLASH) =>
        /\ Cardinality(GrandFinalIds) = 1
        /\ Cardinality(LastOf(WinnersIds)) = 1
        /\ Cardinality(LastOf(LosersIds)) = 1
        /\ \A g \in GrandFinalIds :
              /\ matches[g].match_code = MatchCode("GF", 0, 1)
              /\ ~matches[g].is_losers_bracket
              /\ matches[g].player1 = NoPlayer /\ matches[g].player2 = NoPlayer
              /\ matches[g].next_match = NoMatch
              /\ Feeders(g) = LastOf(WinnersIds) \cup LastOf(LosersIds)
              /\ Cardinality(Feeders(g)) = 2

\* a bracket whose last losers round had two matches, joined by a consolidation match
C8_Witness ==
    /\ BracketBuilt(DOUBLE_SLASH) /\ approved = 8
    /\ \E c \in LosersIds : Cardinality(Feeders(c)) = 2
    /\ \E g \in GrandFinalIds : Cardinality(Feeders(g)) = 2

\* C9: for a group with n standings the round-robin generator creates
\* n(n-1)/2 matches, exactly one per unordered pair of the group's
\* participants (so each participant is in n-1 of them), each with
\* round_number = -group_number and no next_match.
GroupMatchIds(g) == {i \in MatchIds : matches[i].round_number = -groups[g].group_number}

GroupInvolvements(g) == {groups[g].standings[k].involvement : k \in 1..Len(groups[g].standings)}

GroupPhaseBuilt == BracketBuilt(ROUND_ROBIN_KNOCKOUT) /\ Len(groups) > 0

C9_RoundRobin ==
    GroupPhaseBuilt =>
        /\ \A i \in MatchIds : /\ matches[i].next_match = NoMatch
                               /\ \E g \in 1..Len(groups) : i \in GroupMatchIds(g)
        /\ \A g \in 1..Len(groups) :
              LET n == Len(groups[g].standings)
              IN /\ 2 * Cardinality(GroupMatchIds(g)) = n * (n - 1)
                 /\ \A a \in GroupInvolvements(g) :
                       /\ Cardinality({i \in GroupMatchIds(g) :
                              a \in {matches[i].player1, matches[i].player2}}) = n - 1
                       /\ \A b \in GroupInvolvements(g) \ {a} :
                             Cardinality({i \in GroupMatchIds(g) :
                                 {matches[i].player1, matches[i].player2} = {a, b}}) = 1

C9_Witness ==
    /\ GroupPhaseBuilt /\ Len(groups) = 3
    /\ \E g \in 1..Len(groups) : Len(groups[g].standings) = 4
                                 /\ Cardinality(GroupMatchIds(g)) = 6

\* C10: when group generation succeeds every group has 3 to 5 standings and
\* every approved participant has exactly one standing; a generation that
\* would leave a group outside 3-5 fails and leaves no group; with the
\* default bounds (3, 5) generation succeeds for every count N >= 3.
StandingsOf(i) == {<<g, k>> \in (1..Len(groups)) \X (1..MaxGroupSize) :
                      k <= Len(groups[g].standings)
                      /\ groups[g].standings[k].involvement = i}

C10_Groups ==
    /\ \A g \in 1..Len(groups) : Len(groups[g].standings) \in MinGroupSize..MaxGroupSize
    /\ Len(groups) > 0 => \A i \in 1..approved : Cardinality(StandingsOf(i)) = 1
    /\ (result.op = "generate_groups" /\ result.error = "INVALID_PARTICIPANT_COUNT")
          => groups = <<>>
    /\ (result.op = "generate_groups" /\ result.ok) => Len(groups) > 0
    /\ (result.op = "generate_groups"
        /\ result.arg = <<DefaultMinPerGroup, DefaultMaxPerGroup>>
        /\ division.format = ROUND_ROBIN_KNOCKOUT /\ division.is_published
        /\ approved >= 3)
          => (result.ok \/ result.error = "GROUPS_ALREADY_EXIST")

C10_Witness ==
    /\ result.op = "generate_groups" /\ result.ok
    /\ result.arg = <<DefaultMinPerGroup, DefaultMaxPerGroup>>
    /\ approved = 11 /\ Len(groups) = 3

(***************************************************************************)
(* Standings (StandingCalculationService).  The standings of a group are   *)
(* kept in primary-key order; a query returns them by Meta.ordering        *)
(* (position_in_group, global_position), rows with equal keys in an order  *)
(* the database chooses.                                                   *)
(***************************************************************************)
\* involvement.partner: None in a singles division
InvPartnerOf(inv, ptype) == IF ptype = DOUBLES THEN InvPartner(inv) ELSE NoPlayer

\* match.player1 == inv.player and (not match.partner1 or match.partner1 == inv.partner)
IsSide1(m, inv, ptype) ==
    m.player1 = InvPlayer(inv)
    /\ (m.partner1 = NoPlayer \/ m.partner1 = InvPartnerOf(inv, ptype))

\* match.player2 == inv.player and (not match.partner2 or match.partner2 == inv.partner)
IsSide2(m, inv, ptype) ==
    m.player2 = InvPlayer(inv)
    /\ (m.partner2 = NoPlayer \/ m.partner2 = InvPartnerOf(inv, ptype))

\* get_group_matches: the completed matches of the group, in primary-key order
get_group_matches(ms, group) ==
    LET Wanted(id) == ms[id].round_number = -group.group_number
                      /\ ms[id].status = COMPLETED
    IN SelectSeq([k \in 1..Len(ms) |-> k], Wanted)

\* standing.sets_difference
sets_difference(standing) == standing.sets_won - standing.sets_lost

\* a pass that starts from the counters of the pass before
ResetStanding_Keep(standing) == standing

\* "Reset all standings" (the positions are left as they are)
ResetStanding(standing) ==
    [standing EXCEPT !.matches_played = 0, !.matches_won = 0, !.matches_lost = 0,
                     !.sets_won = 0, !.sets_lost = 0, !.points = 0]

\* update_standing_from_match
update_standing_from_match(standing, m, is_winner, ptype) ==
    LET inv == standing.involvement
        p1_sets == Cardinality({n \in DOMAIN m.sets : m.sets[n].winner = PLAYER1})
        p2_sets == Cardinality({n \in DOMAIN m.sets : m.sets[n].winner = PLAYER2})
        sets_won == (IF IsSide1(m, inv, ptype) THEN p1_sets ELSE 0)
                    + (IF IsSide2(m, inv, ptype) THEN p2_sets ELSE 0)
        sets_lost == (IF IsSide1(m, inv, ptype) THEN 0 ELSE p1_sets)
                     + (IF IsSide2(m, inv, ptype) THEN 0 ELSE p2_sets)
    IN [standing EXCEPT
           !.matches_played = @ + 1,
           !.matches_won = IF is_winner THEN @ + 1 ELSE @,
           !.matches_lost = IF is_winner THEN @ ELSE @ + 1,
           !.points = IF is_winner THEN @ + 3 ELSE @ + 1,
           !.sets_won = @ + sets_won,
           !.sets_lost = @ + sets_lost]

\* "Find standings for both players": the last standing of the list that
\* matches side 1, and the last that does not but matches side 2 (0: None)
FindStanding(standings, m, side, ptype) ==
    LET found == {k \in 1..Len(standings) :
                     IF side = PLAYER1
                     THEN IsSide1(m, standings[k].involvement, ptype)
                     ELSE /\ ~IsSide1(m, standings[k].involvement, ptype)
                          /\ IsSide2(m, standings[k].involvement, ptype)}
    IN IF found = {} THEN 0 ELSE CHOOSE k \in found : \A j \in found : j <= k

\* "Process all completed matches": for match in matches
RECURSIVE ProcessMatches(_, _, _, _, _)
ProcessMatches(ms, standings, ids, k, ptype) ==
    IF k > Len(ids) THEN standings
    ELSE LET m == ms[ids[k]]
             standing1 == FindStanding(standings, m, PLAYER1, ptype)
             standing2 == FindStanding(standings, m, PLAYER2, ptype)
             is_winner1 == m.winner = m.player1
             updated ==
                 IF standing1 # 0 /\ standing2 # 0 /\ m.winner # NoPlayer
                 THEN [standings EXCEPT
                          ![standing1] = update_standing_from_match(@, m, is_winner1, ptype),
                          ![standing2] = update_standing_from_match(@, m, ~is_winner1, ptype)]
                 ELSE standings
         IN ProcessMatches(ms, updated, ids, k + 1, ptype)

\* key(a) < key(b) for the sort key of the mode: "group" is sort_key of
\* calculate_group_standings, "global" that of calculate_global_standings
\* (-points, -sets_difference, 4 - sets_won), "global_position" is
\* order_by('global_position'), "query" is Meta.ordering (position_in_group,
\* global_position); NULL sorts last
NullsLastBefore(x, y) == x # 0 /\ (y = 0 \/ x < y)

SortBefore(a, b, mode) ==
    IF mode = "group"
    THEN \/ -a.points < -b.points
         \/ /\ a.points = b.points
            /\ \/ -sets_difference(a) < -sets_difference(b)
               \/ /\ sets_difference(a) = sets_difference(b)
                  /\ -a.sets_won < -b.sets_won
    ELSE IF mode = "global"
    THEN \/ -a.points < -b.points
         \/ /\ a.points = b.points
            /\ \/ -sets_difference(a) < -sets_difference(b)
               \/ /\ sets_difference(a) = sets_difference(b)
                  /\ 4 - a.sets_won < 4 - b.sets_won
    ELSE IF mode = "global_position"
    THEN NullsLastBefore(a.global_position, b.global_position)
    ELSE \/ NullsLastBefore(a.position_in_group, b.position_in_group)
         \/ /\ a.position_in_group = b.position_in_group
            /\ NullsLastBefore(a.global_position, b.global_position)

\* list.sort(key=...): a stable sort, written as insertion from the left
InsertSorted(sorted, x, mode) ==
    LET pos == Cardinality({i \in 1..Len(sorted) : ~SortBefore(x, sorted[i], mode)})
    IN SubSeq(sorted, 1, pos) \o <<x>> \o SubSeq(sorted, pos + 1, Len(sorted))

RECURSIVE StableSort(_, _, _)
StableSort(l, k, mode) ==
    IF k = 0 THEN <<>> ELSE InsertSorted(StableSort(l, k - 1, mode), l[k], mode)

\* the orders in which the database returns rows whose ordering keys are equal
DbOrders == {"pk", "reverse"}

Reversed(l) == [i \in 1..Len(l) |-> l[Len(l) + 1 - i]]

\* a query that ignores Meta.ordering
QueryOrder_Unordered(standings, order) ==
    IF order = "reverse" THEN Reversed(standings) ELSE standings

\* list(group.standings.all())
QueryOrder(standings, order) ==
    LET rows == IF order = "reverse" THEN Reversed(standings) ELSE standings
    IN StableSort(rows, Len(rows), "query")

\* get_head_to_head_result: "true", "false" or "none" (None)
RECURSIVE HeadToHeadLoop(_, _, _, _, _, _)
HeadToHeadLoop(ms, ids, k, inv1, inv2, ptype) ==
    IF k > Len(ids) THEN "none"
    ELSE LET m == ms[ids[k]]
             inv1_is_player1 == IsSide1(m, inv1, ptype) /\ IsSide2(m, inv2, ptype)
             is_match == inv1_is_player1
                         \/ (IsSide1(m, inv2, ptype) /\ IsSide2(m, inv1, ptype))
         IN IF is_match /\ m.winner # NoPlayer
            THEN IF inv1_is_player1
                 THEN (IF m.winner = m.player1 THEN "true" ELSE "false")
                 ELSE (IF m.winner = m.player2 THEN "true" ELSE "false")
            ELSE HeadToHeadLoop(ms, ids, k + 1, inv1, inv2, ptype)

get_head_to_head_result(standing1, standing2, ms, group, ptype) ==
    HeadToHeadLoop(ms, get_group_matches(ms, group), 1,
                   standing1.involvement, standing2.involvement, ptype)

\* the inner while: the first index after i whose keys differ from those of i
RECURSIVE TieEnd(_, _, _)
TieEnd(standings, i, j) ==
    IF /\ j <= Len(standings)
       /\ standings[j].points = standings[i].points
       /\ sets_difference(standings[j]) = sets_difference(standings[i])
       /\ standings[j].sets_won = standings[i].sets_won
    THEN TieEnd(standings, i, j + 1)
    ELSE j

\* a tie-break that never consults the direct match
HandleTies_NoHeadToHead(standings, i, ms, group, ptype) == standings

\* "Handle head-to-head ties" (i is a 1-based position)
RECURSIVE HandleTies(_, _, _, _, _)
HandleTies(standings, i, ms, group, ptype) ==
    IF i > Len(standings) THEN standings
    ELSE LET j == TieEnd(standings, i, i + 1)
             h2h == get_head_to_head_result(standings[i], standings[i + 1],
                                            ms, group, ptype)
             swapped == [standings EXCEPT ![i] = standings[i + 1],
                                          ![i + 1] = standings[i]]
         IN IF j - i = 2 /\ h2h = "false"
            THEN HandleTies(swapped, j, ms, group, ptype)
            ELSE HandleTies(standings, j, ms, group, ptype)

\* calculate_group_standings: the sorted list, positions assigned
calculate_group_standings(ms, group, order, ptype) ==
    LET reset == [k \in 1..Len(group.standings) |-> ResetStanding(group.standings[k])]
        counted == ProcessMatches(ms, reset, get_group_matches(ms, group), 1, ptype)
        refreshed == QueryOrder(counted, order)
        sorted == StableSort(refreshed, Len(refreshed), "group")
        ranked == HandleTies(sorted, 1, ms, group, ptype)
    IN [idx \in 1..Len(ranked) |-> [ranked[idx] EXCEPT !.position_in_group = idx]]

\* all_standings.extend(group_standings) for the groups by group_number
RECURSIVE AllStandings(_, _, _, _, _)
AllStandings(ms, gs, g, order, ptype) ==
    IF g > Len(gs) THEN <<>>
    ELSE calculate_group_standings(ms, gs[g], order, ptype)
         \o AllStandings(ms, gs, g + 1, order, ptype)

\* calculate_global_standings (after validate_division): the groups with
\* every standing row as saved
\* a global sort that does not keep the order of equal standings
GlobalSorted_TiesReversed(all_standings) ==
    StableSort(Reversed(all_standings), Len(all_standings), "global")

GlobalSorted(all_standings) == StableSort(all_standings, Len(all_standings), "global")

GlobalSaved(sorted) ==
    [idx \in 1..Len(sorted) |-> [sorted[idx] EXCEPT !.global_position = idx]]

GlobalStored(gs, saved) ==
    LET RowOf(inv) == saved[CHOOSE idx \in 1..Len(saved) : saved[idx].involvement = inv]
    IN [g \in 1..Len(gs) |->
           [gs[g] EXCEPT !.standings =
               [k \in 1..Len(gs[g].standings) |-> RowOf(gs[g].standings[k].involvement)]]]

calculate_global_standings(ms, gs, order, ptype) ==
    GlobalStored(gs, GlobalSaved(GlobalSorted(AllStandings(ms, gs, 1, order, ptype))))

\* StandingCalculationService.validate_division
StandingsValidationError(div) ==
    IF div.format # ROUND_ROBIN_KNOCKOUT THEN "ERROR_STANDINGS_FORMAT" ELSE "ok"

(***************************************************************************)
(* Score / winner resolver (MatchScoreService).                            *)
(***************************************************************************)
\* a winner rule that lets a tie at or above the threshold count for player 1
SetWinnerOf_TieToPlayer1(player1_score, player2_score, points_per_set) ==
    IF player1_score >= player2_score /\ player1_score >= points_per_set THEN PLAYER1
    ELSE IF player2_score > player1_score /\ player2_score >= points_per_set THEN PLAYER2
    ELSE NoWinner

\* "Determine winner" of create_or_update_sets
SetWinnerOf(player1_score, player2_score, points_per_set) ==
    IF player1_score > player2_score /\ player1_score >= points_per_set THEN PLAYER1
    ELSE IF player2_score > player1_score /\ player2_score >= points_per_set THEN PLAYER2
    ELSE NoWinner

\* Set.full_clean raises nothing (the winner computed above always has the
\* required points and the higher score, so only these checks can fail)
SetCleanOk(m, set_data) ==
    /\ set_data.set_number <= m.max_sets
    /\ set_data.player1_score >= 0 /\ set_data.player2_score >= 0

\* Set.objects.update_or_create for every submitted set, in list order
RECURSIVE create_or_update_sets(_, _, _)
create_or_update_sets(m, sets_data, k) ==
    IF k > Len(sets_data) THEN m.sets
    ELSE LET d == sets_data[k]
             row == [player1_score |-> d.player1_score,
                     player2_score |-> d.player2_score,
                     winner |-> SetWinnerOf(d.player1_score, d.player2_score,
                                            m.points_per_set)]
             rest == create_or_update_sets(m, sets_data, k + 1)
         IN [n \in (DOMAIN rest) \cup {d.set_number} |->
                IF n = d.set_number /\ \A j \in (k + 1)..Len(sets_data) :
                                           sets_data[j].set_number # n
                THEN row ELSE rest[n]]

\* Match.sets_to_win
sets_to_win(m) == (m.max_sets \div 2) + 1

\* Match.sets_won_by_player1 / sets_won_by_player2
sets_won_by(m, side) == Cardinality({n \in DOMAIN m.sets : m.sets[n].winner = side})

\* calculate_winner: "p1", "p2" or "none" (None); a returned tuple is
\* (player, partner) of that side, whatever those slots hold
calculate_winner(m) ==
    IF sets_won_by(m, PLAYER1) >= sets_to_win(m) THEN "p1"
    ELSE IF sets_won_by(m, PLAYER2) >= sets_to_win(m) THEN "p2"
    ELSE "none"

\* a propagation that always writes the winner into the first slot
fill_next_match_Overwrite(next, winner_player, winner_partner, match_type) ==
    [next EXCEPT !.player1 = winner_player,
                 !.partner1 = IF match_type = DOUBLES /\ winner_partner # NoPlayer
                              THEN winner_partner ELSE next.partner1]

\* "Update next match if exists": the first empty player slot takes the winner
fill_next_match(next, winner_player, winner_partner, match_type) ==
    IF next.player1 = NoPlayer
    THEN [next EXCEPT !.player1 = winner_player,
                      !.partner1 = IF match_type = DOUBLES /\ winner_partner # NoPlayer
                                   THEN winner_partner ELSE next.partner1]
    ELSE IF next.player2 = NoPlayer
    THEN [next EXCEPT !.player2 = winner_player,
                      !.partner2 = IF match_type = DOUBLES /\ winner_partner # NoPlayer
                                   THEN winner_partner ELSE next.partner2]
    ELSE next

\* update_match_status on the rows ms for match id; a tuple returned by
\* calculate_winner is truthy even when it is (None, None)
update_match_status(ms, id, winner) ==
    LET m == ms[id]
        winner_player == IF winner = "p1" THEN m.player1 ELSE m.player2
        winner_partner == IF winner = "p1" THEN m.partner1 ELSE m.partner2
        done == [m EXCEPT !.winner = winner_player, !.winner_partner = winner_partner,
                          !.status = COMPLETED]
    IN IF winner # "none"
       THEN IF m.next_match # NoMatch
            THEN [ms EXCEPT ![id] = done,
                            ![m.next_match] = fill_next_match(ms[m.next_match],
                                                  winner_player, winner_partner,
                                                  m.match_type)]
            ELSE [ms EXCEPT ![id] = done]
       ELSE IF m.status = PENDING
            THEN [ms EXCEPT ![id].status = IN_PROGRESS]
            ELSE ms

\* the rows update_match_status saves (each save runs full_clean)
SavedBy(ms, id, winner) ==
    IF winner # "none"
    THEN IF ms[id].next_match # NoMatch THEN {ms[id].next_match, id} ELSE {id}
    ELSE IF ms[id].status = PENDING THEN {id} ELSE {}

\* a status check that lets a cancelled match through
ScoreStatusError_CancelledPasses(m) ==
    IF m.status = COMPLETED THEN "ERROR_MATCH_ALREADY_COMPLETED" ELSE "ok"

\* validate_match_status
ScoreStatusError(m) ==
    IF m.status = COMPLETED THEN "ERROR_MATCH_ALREADY_COMPLETED"
    ELSE IF m.status = CANCELLED THEN "ERROR_MATCH_CANCELLED"
    ELSE "ok"

TotalSetRows(ms) ==
    LET RECURSIVE Sum(_)
        Sum(k) == IF k = 0 THEN 0 ELSE Cardinality(DOMAIN ms[k].sets) + Sum(k - 1)
    IN Sum(Len(ms))

\* what an exception of the standings service does to the score request:
\* a request that fails with it
StandingsFailure_Propagates(raised) == IF raised THEN "ERROR_STANDINGS_RAISED" ELSE "ok"

\* what an exception of the standings service does to the score request:
\* it is caught and logged
StandingsFailure(raised) == "ok"

\* trigger_standings_calculation: the groups after it; `raised` says that the
\* standings service raised (its own atomic block then keeps none of its writes)
trigger_standings_calculation(ms, gs, div, order, raised) ==
    IF div.format = ROUND_ROBIN_KNOCKOUT /\ ~raised
    THEN calculate_global_standings(ms, gs, order, div.participant_type)
    ELSE gs

\* what the trigger logs
TriggerLog(div, raised) ==
    IF div.format # ROUND_ROBIN_KNOCKOUT THEN <<>>
    ELSE IF raised THEN <<"standings_error_logged">>
    ELSE <<"standings_calculated">>

\* MatchScoreService.execute (transaction.atomic) on match id with the
\* validated sets of the request; nothing is kept when a step raises
RecordScores(id, sets_data) ==
    LET m == matches[id]
        status_error == ScoreStatusError(m)
        with_sets == [matches EXCEPT ![id].sets = create_or_update_sets(m, sets_data, 1)]
        winner == calculate_winner(with_sets[id])
        updated == update_match_status(with_sets, id, winner)
        is_group_format == division.format = ROUND_ROBIN_KNOCKOUT
    IN /\ id \in 1..Len(matches)
       /\ \E order \in (IF is_group_format THEN DbOrders ELSE {"pk"}),
             raised \in (IF is_group_format THEN BOOLEAN ELSE {FALSE}) :
             IF status_error # "ok"
             THEN /\ matches' = matches
                  /\ groups' = groups
                  /\ result' = Outcome("scores", status_error, <<>>)
             ELSE IF \E k \in 1..Len(sets_data) : ~SetCleanOk(m, sets_data[k])
             THEN /\ matches' = matches
                  /\ groups' = groups
                  /\ result' = Outcome("scores", "ERROR_SET_NUMBER_EXCEEDS_MAX", <<>>)
             ELSE IF \E k \in SavedBy(with_sets, id, winner) : ~CleanOk(updated[k], division)
             THEN /\ matches' = matches
                  /\ groups' = groups
                  /\ result' = Outcome("scores", "ERROR_SAVE_RAISED", <<>>)
             ELSE IF StandingsFailure(raised) # "ok"
             THEN /\ matches' = matches
                  /\ groups' = groups
                  /\ result' = Outcome("scores", StandingsFailure(raised),
                                       TriggerLog(division, raised))
             ELSE /\ matches' = updated
                  /\ groups' = trigger_standings_calculation(updated, groups, division,
                                                              order, raised)
                  /\ result' = Outcome("scores", "ok", TriggerLog(division, raised))
       /\ UNCHANGED <<division, approved, pending, calls>>

\* StandingCalculationService.execute (transaction.atomic)
CalculateStandings ==
    LET error == StandingsValidationError(division)
    IN /\ \E order \in DbOrders :
             IF error # "ok"
             THEN /\ groups' = groups
                  /\ result' = Outcome("standings", error, <<>>)
             ELSE /\ groups' = calculate_global_standings(matches, groups, order,
                                                          division.participant_type)
                  /\ result' = Outcome("standings", "ok", <<>>)
       /\ UNCHANGED <<division, approved, pending, matches, calls>>

\* the admin form of a match: status set to cancelled, then Match.save
CancelMatch(id) ==
    LET cancelled == [matches[id] EXCEPT !.status = CANCELLED]
    IN /\ id \in 1..Len(matches)
       /\ matches[id].status \in {PENDING, IN_PROGRESS}
       /\ Cardinality({k \in 1..Len(matches) : matches[k].status = CANCELLED}) < MaxCancelled
       /\ IF CleanOk(cancelled, division)
          THEN /\ matches' = [matches EXCEPT ![id] = cancelled]
               /\ result' = Outcome("cancel", "ok", <<>>)
          ELSE /\ matches' = matches
               /\ result' = Outcome("cancel", "ERROR_SAVE_RAISED", <<>>)
       /\ UNCHANGED <<division, approved, pending, groups, calls>>

(***************************************************************************)
(* Specification of the resolver: a bracket is generated, then scores are  *)
(* submitted for any match in any order and matches are cancelled.         *)
(***************************************************************************)
InitPlay ==
    /\ division \in [format : {KNOCKOUT, DOUBLE_SLASH},
                     participant_type : {SINGLE, DOUBLES}, is_published : {TRUE}]
    /\ approved \in 2..MaxPlayN
    /\ pending = 0
    /\ matches = <<>>
    /\ groups = <<>>
    /\ calls = <<>>
    /\ result = NoResult

SetData(n, pair) == [set_number |-> n, player1_score |-> pair[1], player2_score |-> pair[2]]

\* a first set won by either side or tied, a two-set sweep by either side,
\* and a set whose number (4) exceeds max_sets
PlaySetsData ==
    {<<SetData(1, pair)>> : pair \in {<<15, 10>>, <<10, 15>>, <<15, 15>>}}
    \cup {<<SetData(1, pair), SetData(2, pair)>> : pair \in {<<15, 10>>, <<10, 15>>}}
    \cup {<<SetData(4, <<15, 10>>)>>}

PlayBracket == GenerateBracket(3, 15)

PlayScores == \E id \in 1..Len(matches), sets_data \in PlaySetsData :
                  RecordScores(id, sets_data) /\ TotalSetRows(matches') <= MaxSetRows

PlayCancel == \E id \in 1..Len(matches) : CancelMatch(id)

NextPlay == PlayBracket \/ PlayScores \/ PlayCancel

SpecPlay == InitPlay /\ [][NextPlay]_vars

(***************************************************************************)
(* Specification of set scoring: one real match, single sets with scores   *)
(* around the points_per_set threshold.                                    *)
(***************************************************************************)
ScoreValues == {10, 14, 15, 16}

ScorePoints == {11, 15}

InitScore ==
    /\ division \in [format : {KNOCKOUT}, participant_type : {SINGLE},
                     is_published : {TRUE}]
    /\ approved = MinParticipantsRequired
    /\ pending = 0
    /\ matches = <<>>
    /\ groups = <<>>
    /\ calls = <<>>
    /\ result = NoResult

ScoreBracket == \E points_per_set \in ScorePoints : GenerateBracket(3, points_per_set)

ScoreSet == \E n \in 1..2, s1 \in ScoreValues, s2 \in ScoreValues :
                RecordScores(1, <<SetData(n, <<s1, s2>>)>>)

NextScore == ScoreBracket \/ ScoreSet

SpecScore == InitScore /\ [][NextScore]_vars

(***************************************************************************)
(* Properties of the resolver.                                             *)
(***************************************************************************)
\* C3: when RecordScores completes match A with winner W and next match B,
\* W is written to B.player1 if that slot was empty, otherwise to B.player2
\* if that slot was empty; no RecordScores call changes a filled slot.
C3_Propagation ==
    [][result'.op = "scores" =>
          /\ \A a \in MatchIds :
                (matches[a].status # COMPLETED /\ matches'[a].status = COMPLETED
                 /\ matches[a].next_match # NoMatch) =>
                    LET b == matches[a].next_match
                        W == matches'[a].winner
                    IN IF matches[b].player1 = NoPlayer
                       THEN matches'[b].player1 = W
                       ELSE matches[b].player2 = NoPlayer => matches'[b].player2 = W
          /\ \A b \in MatchIds :
                /\ matches[b].player1 # NoPlayer => matches'[b].player1 = matches[b].player1
                /\ matches[b].player2 # NoPlayer => matches'[b].player2 = matches[b].player2
      ]_vars

\* two completed matches, one whose winner took the first slot of its next
\* match and one whose winner took the second slot beside another participant
C3_Witness ==
    /\ result.op = "scores" /\ result.ok
    /\ \E a \in MatchIds :
          /\ matches[a].status = COMPLETED /\ matches[a].winner # NoPlayer
          /\ matches[a].next_match # NoMatch
          /\ matches[matches[a].next_match].player1 = matches[a].winner
    /\ \E a \in MatchIds :
          /\ matches[a].status = COMPLETED /\ matches[a].winner # NoPlayer
          /\ matches[a].next_match # NoMatch
          /\ matches[matches[a].next_match].player2 = matches[a].winner
          /\ matches[matches[a].next_match].player1 \notin {NoPlayer, matches[a].winner}

\* C4: a match whose status is Completed has a non-null winner, and that
\* winner is the side (player1 or player2) that won at least
\* floor(max_sets / 2) + 1 sets.
C4_CompletedHasWinner ==
    \A id \in MatchIds :
        matches[id].status = COMPLETED =>
            /\ matches[id].winner # NoPlayer
            /\ \/ /\ matches[id].winner = matches[id].player1
                  /\ sets_won_by(matches[id], PLAYER1) >= (matches[id].max_sets \div 2) + 1
               \/ /\ matches[id].winner = matches[id].player2
                  /\ sets_won_by(matches[id], PLAYER2) >= (matches[id].max_sets \div 2) + 1

\* C5: the recorded winner of a set with scores (s1, s2) is player1 iff
\* s1 > s2 and s1 >= points_per_set, player2 iff s2 > s1 and
\* s2 >= points_per_set, and nobody otherwise; a set without a winner does
\* not count toward completing the match.
DecisiveSets(m, side) ==
    Cardinality({n \in DOMAIN m.sets :
        LET mine == IF side = PLAYER1 THEN m.sets[n].player1_score
                    ELSE m.sets[n].player2_score
            other == IF side = PLAYER1 THEN m.sets[n].player2_score
                     ELSE m.sets[n].player1_score
        IN mine > other /\ mine >= m.points_per_set})

C5_SetWinner ==
    \A id \in MatchIds :
        LET m == matches[id]
        IN /\ \A n \in DOMAIN m.sets :
                 LET s1 == m.sets[n].player1_score
                     s2 == m.sets[n].player2_score
                 IN /\ m.sets[n].winner = PLAYER1 <=> (s1 > s2 /\ s1 >= m.points_per_set)
                    /\ m.sets[n].winner = PLAYER2 <=> (s2 > s1 /\ s2 >= m.points_per_set)
                    /\ m.sets[n].winner \in {PLAYER1, PLAYER2, NoWinner}
           /\ m.status = COMPLETED <=>
                 \E side \in {PLAYER1, PLAYER2} :
                     DecisiveSets(m, side) >= (m.max_sets \div 2) + 1

\* (15,15) recorded without a winner beside (16,14) won by player 1, at 15
\* points per set: one set won, the match is not completed
C5_Witness ==
    /\ result.op = "scores" /\ result.ok
    /\ \E id \in MatchIds :
          /\ matches[id].points_per_set = 15 /\ matches[id].status = IN_PROGRESS
          /\ \E n \in DOMAIN matches[id].sets :
                /\ matches[id].sets[n].player1_score = 15
                /\ matches[id].sets[n].player2_score = 15
                /\ matches[id].sets[n].winner = NoWinner
          /\ \E n \in DOMAIN matches[id].sets :
                /\ matches[id].sets[n].player1_score = 16
                /\ matches[id].sets[n].player2_score = 14
                /\ matches[id].sets[n].winner = PLAYER1

\* C6: RecordScores on a Completed or Cancelled match returns an error and
\* changes no match row (status, winner, sets, slots of the next match); the
\* only status changes RecordScores makes are Pending -> InProgress,
\* Pending -> Completed and InProgress -> Completed.
C6_TerminalStatus ==
    [][/\ \A id \in MatchIds, sets_data \in PlaySetsData :
             (matches[id].status \in {COMPLETED, CANCELLED} /\ RecordScores(id, sets_data))
                 => (~result'.ok /\ matches' = matches)
       /\ result'.op = "scores" =>
             \A k \in MatchIds :
                 matches'[k].status # matches[k].status =>
                     <<matches[k].status, matches'[k].status>> \in
                         {<<PENDING, IN_PROGRESS>>, <<PENDING, COMPLETED>>,
                          <<IN_PROGRESS, COMPLETED>>}
      ]_vars

\* a call on a cancelled match was refused while another match is completed
\* and a third row has scores in progress
C6_Witness ==
    /\ result.op = "scores" /\ result.error = "ERROR_MATCH_CANCELLED"
    /\ \E k \in MatchIds : matches[k].status = CANCELLED
    /\ \E k \in MatchIds : matches[k].status = COMPLETED

\* C7: in a double-elimination bracket every participant who lost a
\* winners-bracket match that had two real participants occupies a player
\* slot of at least one losers-bracket match.
C7_LosersFed ==
    division.format = DOUBLE_SLASH =>
        \A a \in WinnersIds :
            (/\ matches[a].status = COMPLETED
             /\ matches[a].player1 # NoPlayer /\ matches[a].player2 # NoPlayer) =>
                LET loser == IF matches[a].winner = matches[a].player1
                             THEN matches[a].player2 ELSE matches[a].player1
                IN \E l \in LosersIds : loser \in {matches[l].player1, matches[l].player2}

(***************************************************************************)
(* Specification of the standings: a round-robin-knockout division with    *)
(* one group of three, one group of four or two groups of three, drawn in  *)
(* registration order.  Some of its group matches have been played before  *)
(* any standing was calculated (the state RecordScores leaves when every   *)
(* triggered calculation raised); the standings are then calculated, and   *)
(* calculated again.                                                       *)
(***************************************************************************)
MaxCompleted == 4      \* completed matches of the division

StandCounts == {3, 4, 6}

\* a two-set sweep by either side, or a win of player 1 in three sets
StandSetsData ==
    {<<SetData(1, pair), SetData(2, pair)>> : pair \in {<<15, 10>>, <<10, 15>>}}
    \cup {<<SetData(1, <<15, 10>>), SetData(2, <<10, 15>>), SetData(3, <<15, 10>>)>>}

CompletedMatches(ms) == {k \in 1..Len(ms) : ms[k].status = COMPLETED}

\* the matches after the score requests `played` (match id -> sets, <<>> for a
\* match not played), none of which reached the standings
RECURSIVE PlayedOut(_, _, _)
PlayedOut(ms, played, k) ==
    IF k > Len(ms) THEN ms
    ELSE IF played[k] = <<>> THEN PlayedOut(ms, played, k + 1)
    ELSE LET with_sets == [ms EXCEPT ![k].sets = create_or_update_sets(ms[k], played[k], 1)]
         IN PlayedOut(update_match_status(with_sets, k, calculate_winner(with_sets[k])),
                      played, k + 1)

InitStand ==
    /\ division \in [format : {ROUND_ROBIN_KNOCKOUT},
                     participant_type : {SINGLE, DOUBLES}, is_published : {TRUE}]
    /\ approved \in StandCounts
    /\ pending = 0
    /\ groups = CreatedGroups(distribute_participants([i \in 1..approved |-> i],
                                                      DefaultMinPerGroup,
                                                      DefaultMaxPerGroup))
    /\ LET created == generate_group_phase_matches(
                          BuilderState(<<>>, division, 3, 15), groups, 1).ms
       IN \E played \in [1..Len(created) -> StandSetsData \cup {<<>>}] :
             /\ Cardinality({k \in DOMAIN played : played[k] # <<>>}) <= MaxCompleted
             /\ matches = PlayedOut(created, played, 1)
    /\ result = NoResult
    /\ calls = <<>>

StandCalculate == CalculateStandings

NextStand == StandCalculate

SpecStand == InitStand /\ [][NextStand]_vars

\* the completed matches of group g that involvement inv plays in
MatchesOf(g, inv) ==
    {id \in 1..Len(matches) :
        /\ matches[id].round_number = -groups[g].group_number
        /\ matches[id].status = COMPLETED
        /\ InvPlayer(inv) \in {matches[id].player1, matches[id].player2}}

\* the Set rows of those matches won by the named side: own or opponent
SetsOf(g, inv, own) ==
    {<<id, n>> \in MatchesOf(g, inv) \X (1..3) :
        /\ n \in DOMAIN matches[id].sets
        /\ matches[id].sets[n].winner
               = (IF (matches[id].player1 = InvPlayer(inv)) = own THEN PLAYER1 ELSE PLAYER2)}

\* C11: after CalculateStandings every standing has matches_played =
\* matches_won + matches_lost = the number of completed matches of its group
\* that its participant plays in, points = 3 * matches_won + matches_lost, and
\* sets_won / sets_lost equal to the sets its side won / lost in those matches
\* (nothing of an earlier pass is added)
C11_Counters ==
    (result.op = "standings" /\ result.ok) =>
        \A g \in 1..Len(groups) : \A k \in 1..Len(groups[g].standings) :
            LET s == groups[g].standings[k]
                mine == MatchesOf(g, s.involvement)
                won == {id \in mine : matches[id].winner = InvPlayer(s.involvement)}
            IN /\ s.matches_played = Cardinality(mine)
               /\ s.matches_played = s.matches_won + s.matches_lost
               /\ s.matches_won = Cardinality(won)
               /\ s.points = 3 * s.matches_won + s.matches_lost
               /\ s.sets_won = Cardinality(SetsOf(g, s.involvement, TRUE))
               /\ s.sets_lost = Cardinality(SetsOf(g, s.involvement, FALSE))

\* a calculated standing of a doubles pair that won a match in three sets and
\* lost another
C11_Witness ==
    /\ result.op = "standings" /\ result.ok
    /\ division.participant_type = DOUBLES
    /\ \E g \in 1..Len(groups) : \E k \in 1..Len(groups[g].standings) :
          LET s == groups[g].standings[k]
          IN s.matches_won = 1 /\ s.matches_lost = 1 /\ s.sets_won >= 2 /\ s.sets_lost = 3

\* the sort keys of two standings: a ranks strictly before b / they are equal
RanksBefore(a, b) ==
    \/ a.points > b.points
    \/ /\ a.points = b.points
       /\ \/ sets_difference(a) > sets_difference(b)
          \/ /\ sets_difference(a) = sets_difference(b)
             /\ a.sets_won > b.sets_won

SameKeys(a, b) ==
    /\ a.points = b.points
    /\ sets_difference(a) = sets_difference(b)
    /\ a.sets_won = b.sets_won

\* the standings of the list that are equal to standing a on all three keys
TiedWith(standings, a) == {k \in 1..Len(standings) : SameKeys(standings[k], a)}

\* a completed match of group g between the two involvements, won by the first
WonDirectMatch(g, inv, other) ==
    \E id \in MatchesOf(g, inv) \cap MatchesOf(g, other) :
        matches[id].winner = InvPlayer(inv)

\* C12: a calculation numbers the standings of each group 1..n by points, then
\* sets difference, then sets won, all descending; of exactly two standings
\* equal on the three keys with a completed direct match, the winner of that
\* match comes first; three or more equal standings keep the order they had
C12_Ranking ==
    [][(result'.op = "standings" /\ result'.ok) =>
          \A g \in 1..Len(groups') :
              LET old == groups[g].standings
                  new == groups'[g].standings
              IN \A i, j \in 1..Len(new) :
                    (i # j) =>
                       /\ new[i].position_in_group \in 1..Len(new)
                       /\ new[i].position_in_group # new[j].position_in_group
                       /\ RanksBefore(new[i], new[j])
                             => new[i].position_in_group < new[j].position_in_group
                       /\ ( /\ TiedWith(new, new[i]) = {i, j}
                            /\ WonDirectMatch(g, new[i].involvement, new[j].involvement) )
                             => new[i].position_in_group < new[j].position_in_group
                       /\ ( /\ {i, j} \subseteq TiedWith(new, new[i])
                            /\ Cardinality(TiedWith(new, new[i])) >= 3
                            /\ old[i].position_in_group # 0
                            /\ old[i].position_in_group < old[j].position_in_group )
                             => new[i].position_in_group < new[j].position_in_group
      ]_vars

\* calculated standings of a group of four in which exactly two standings are
\* equal on the three keys, ranked below a third, and one of the two won their
\* direct match and is ranked first of the two
C12_Witness ==
    /\ result.op = "standings" /\ result.ok
    /\ \E g \in 1..Len(groups) :
          LET st == groups[g].standings
          IN /\ Len(st) = 4
             /\ \E i, j, k \in 1..Len(st) :
                   /\ TiedWith(st, st[i]) = {i, j} /\ i # j
                   /\ WonDirectMatch(g, st[i].involvement, st[j].involvement)
                   /\ st[i].position_in_group < st[j].position_in_group
                   /\ RanksBefore(st[k], st[i])

\* C13: a calculation that follows a successful calculation, no score having
\* been submitted in between, leaves every standing as it was: counters,
\* position_in_group and global_position, tied standings included
C13_Idempotent ==
    [][(/\ result.op = "standings" /\ result.ok
        /\ result'.op = "standings" /\ result'.ok) => groups' = groups]_vars

\* calculated standings, numbered in their group and in the division, of which
\* three are equal on the three keys after playing each other, and the first
\* of them lost its direct match with the second
C13_Witness ==
    /\ result.op = "standings" /\ result.ok
    /\ \E g \in 1..Len(groups) :
          LET st == groups[g].standings
          IN \E i, j \in 1..Len(st) :
                /\ Cardinality(TiedWith(st, st[i])) = 3
                /\ j \in TiedWith(st, st[i])
                /\ st[i].position_in_group < st[j].position_in_group
                /\ st[i].global_position # 0
                /\ st[i].global_position < st[j].global_position
                /\ WonDirectMatch(g, st[j].involvement, st[i].involvement)

(***************************************************************************)
(* Scheduler (_schedule_matches).  A time is a number of minutes, day d     *)
(* starting at d * MinutesPerDay; a location "Cancha n" is the number n.   *)
(***************************************************************************)
MinutesPerDay == 1440

\* the slots of day d from minute-of-day t on, one per court at each start
RECURSIVE DaySlots(_, _, _, _, _)
DaySlots(d, t, end_hour, courts, duration) ==
    IF t + duration > end_hour THEN <<>>
    ELSE [c \in 1..courts |-> [start |-> d * MinutesPerDay + t,
                               end |-> d * MinutesPerDay + t + duration,
                               location |-> c]]
         \o DaySlots(d, t + duration, end_hour, courts, duration)

\* "Generate time slots" for the days d..days; the list is built in the order
\* of the start times, which slots.sort (stable) keeps
RECURSIVE Slots(_, _, _, _, _, _)
Slots(d, days, start_hour, end_hour, courts, duration) ==
    IF d > days THEN <<>>
    ELSE DaySlots(d, start_hour, end_hour, courts, duration)
         \o Slots(d + 1, days, start_hour, end_hour, courts, duration)

\* players_in_match
PlayersInMatch(m) == {m.player1, m.player2, m.partner1, m.partner2} \ {NoPlayer}

\* a scheduler that never finds a player busy
HasConflict_Never(players, slot, player_schedules) == FALSE

\* "Check player conflicts": player_schedules is a set of <<player, start, end>>
HasConflict(players, slot, player_schedules) ==
    \E busy \in player_schedules :
        /\ busy[1] \in players
        /\ slot.start < busy[3]
        /\ slot.end > busy[2]

\* a scheduler that gives up at the first match it cannot place
AfterUnassigned_Stop(k, n) == n + 1

\* the match the loop turns to when no slot was found for match k of n
AfterUnassigned(k, n) == k + 1

\* "Assign matches to slots": for match in matches, from the k-th on
RECURSIVE AssignLoop(_, _, _, _, _, _)
AssignLoop(ms, ids, k, slots, used_slots, player_schedules) ==
    IF k > Len(ids) \/ Len(slots) = 0 THEN ms
    ELSE LET m == ms[ids[k]]
             players == PlayersInMatch(m)
             free == {i \in 1..Len(slots) :
                         /\ i \notin used_slots
                         /\ ~HasConflict(players, slots[i], player_schedules)}
         IN IF free = {}
            THEN AssignLoop(ms, ids, AfterUnassigned(k, Len(ids)), slots,
                            used_slots, player_schedules)
            ELSE LET i == CHOOSE x \in free : \A y \in free : x <= y
                 IN AssignLoop(
                        [ms EXCEPT ![ids[k]].scheduled_at = slots[i].start,
                                   ![ids[k]].location = slots[i].location],
                        ids, k + 1, slots, used_slots \cup {i},
                        player_schedules
                            \cup {<<pl, slots[i].start, slots[i].end>> : pl \in players})

\* _schedule_matches over the batch ids; p holds the parameters of the call
schedule_matches(ms, ids, p) ==
    AssignLoop(ms, ids, 1,
               Slots(1, p.days, p.start_hour, p.end_hour, p.courts, p.duration),
               {}, {})

\* generate_group_phase_matches over the division's groups, called with the
\* scheduling parameters p
GenerateGroupPhaseScheduled(max_sets, points_per_set, p) ==
    LET st == generate_group_phase_matches(
                  BuilderState(matches, division, max_sets, points_per_set), groups, 1)
        batch == [k \in 1..(Len(st.ms) - Len(matches)) |-> Len(matches) + k]
    IN /\ Len(groups) > 0
       /\ IF st.failed
          THEN /\ matches' = matches
               /\ result' = Outcome("schedule_group_phase", "ERROR_SAVE_RAISED", p)
          ELSE /\ matches' = schedule_matches(st.ms, batch, p)
               /\ result' = Outcome("schedule_group_phase", "ok", p)
       /\ UNCHANGED <<division, approved, pending, groups, calls>>

(***************************************************************************)
(* Specification of the scheduler: the groups of a published               *)
(* round-robin-knockout division are drawn and their matches generated     *)
(* with a schedule of one or more days, courts and slot lengths.           *)
(***************************************************************************)
MaxDays == 2
MaxCourts == 2

SchedCounts == {3, 4, 6}

\* 9:00 to 10:00 or 11:00, matches of 60 or 90 minutes
SchedParams ==
    [days : 1..MaxDays, start_hour : {540}, end_hour : {600, 660},
     courts : 1..MaxCourts, duration : {60, 90}]

InitSched ==
    /\ division \in [format : {ROUND_ROBIN_KNOCKOUT},
                     participant_type : {SINGLE, DOUBLES}, is_published : {TRUE}]
    /\ approved \in SchedCounts
    /\ pending = 0
    /\ matches = <<>>
    /\ groups = <<>>
    /\ result = NoResult
    /\ calls = <<>>

SchedGroups == GenerateGroups(DefaultMinPerGroup, DefaultMaxPerGroup)

SchedGroupPhase == \E p \in SchedParams : GenerateGroupPhaseScheduled(3, 15, p)

NextSched == SchedGroups \/ SchedGroupPhase

SpecSched == InitSched /\ [][NextSched]_vars

\* the parameters of the scheduled generation that the state results from
SchedOk == result.op = "schedule_group_phase" /\ result.ok

Scheduled(id) == matches[id].scheduled_at # 0

\* C14: after a scheduler pass no two matches of the batch have the same
\* (scheduled_at, location), and no player or partner is in two scheduled
\* matches whose intervals [scheduled_at, scheduled_at + duration) overlap
C14_NoDoubleBooking ==
    SchedOk =>
        \A a, b \in 1..Len(matches) :
            (a # b /\ Scheduled(a) /\ Scheduled(b)) =>
               /\ ~( /\ matches[a].scheduled_at = matches[b].scheduled_at
                     /\ matches[a].location = matches[b].location )
               /\ ( /\ matches[a].scheduled_at < matches[b].scheduled_at + result.arg.duration
                    /\ matches[b].scheduled_at < matches[a].scheduled_at + result.arg.duration )
                     => PlayersInMatch(matches[a]) \cap PlayersInMatch(matches[b]) = {}

\* a schedule on two courts in which two matches without a common player are
\* played at the same time, and two matches of one player at different times
C14_Witness ==
    /\ SchedOk
    /\ \E a, b, c \in 1..Len(matches) :
          /\ Scheduled(a) /\ Scheduled(b) /\ Scheduled(c)
          /\ a # b /\ matches[a].scheduled_at = matches[b].scheduled_at
          /\ matches[a].location # matches[b].location
          /\ PlayersInMatch(matches[a]) \cap PlayersInMatch(matches[c]) # {}
          /\ matches[a].scheduled_at # matches[c].scheduled_at

\* the slots of the pass that the state results from
PassSlots ==
    Slots(1, result.arg.days, result.arg.start_hour, result.arg.end_hour,
          result.arg.courts, result.arg.duration)

\* slot s was unused and free of conflicts when the pass turned to match id:
\* no earlier match of the batch holds it or keeps a player of id busy in it
FreeFor(id, s) ==
    \A k \in 1..(id - 1) :
        Scheduled(k) =>
           /\ ~(matches[k].scheduled_at = s.start /\ matches[k].location = s.location)
           /\ ( /\ s.start < matches[k].scheduled_at + result.arg.duration
                /\ s.end > matches[k].scheduled_at )
                 => PlayersInMatch(matches[k]) \cap PlayersInMatch(matches[id]) = {}

\* C15: after a scheduler pass a match is left with scheduled_at and location
\* unset exactly when no unused, conflict-free slot existed for it at its turn
\* (later matches are still tried); every other match holds a slot of the
\* pass, and scheduled plus unscheduled matches make up the batch
C15_BestEffort ==
    SchedOk =>
        /\ \A id \in 1..Len(matches) :
              /\ Scheduled(id) <=> (\E i \in 1..Len(PassSlots) : FreeFor(id, PassSlots[i]))
              /\ Scheduled(id) =>
                    \E i \in 1..Len(PassSlots) :
                        /\ PassSlots[i].start = matches[id].scheduled_at
                        /\ PassSlots[i].location = matches[id].location
              /\ ~Scheduled(id) => matches[id].location = 0
        /\ Cardinality({id \in 1..Len(matches) : Scheduled(id)})
             + Cardinality({id \in 1..Len(matches) : matches[id].scheduled_at = 0
                                                     /\ matches[id].location = 0})
             = Len(matches)

\* a pass that found no slot for one match and scheduled a later one
C15_Witness ==
    /\ SchedOk
    /\ \E a, b \in 1..Len(matches) :
          a < b /\ ~Scheduled(a) /\ matches[a].location = 0 /\ Scheduled(b)

(***************************************************************************)
(* Registration and publication of a division (Involvement, publish).      *)
(***************************************************************************)

\* Involvement.objects.create(status=PENDING) in a division without
\* max_participants: Involvement.clean closes the registration of a published
\* division only inside its max_participants check
Register ==
    /\ pending' = pending + 1
    /\ result' = Outcome("register", "ok", <<>>)
    /\ UNCHANGED <<division, approved, matches, groups, calls>>

\* Involvement.approve on a pending involvement
Approve ==
    /\ pending > 0
    /\ pending' = pending - 1
    /\ approved' = approved + 1
    /\ result' = Outcome("approve", "ok", <<>>)
    /\ UNCHANGED <<division, matches, groups, calls>>

\* TournamentDivision.publish: the first check that raises
PublishError(div, n, waiting) ==
    IF div.is_published THEN "ERROR_DIVISION_ALREADY_PUBLISHED"
    ELSE IF n < 2 THEN "ERROR_DIVISION_INSUFFICIENT_APPROVED_PLAYERS"
    ELSE IF waiting > 0 THEN "ERROR_DIVISION_HAS_PENDING_INVOLVEMENTS"
    ELSE "ok"

\* DivisionCompletionService.publish_division
Publish ==
    LET error == PublishError(division, approved, pending)
    IN /\ division' = IF error = "ok" THEN [division EXCEPT !.is_published = TRUE]
                      ELSE division
       /\ result' = Outcome("publish", error, <<>>)
       /\ UNCHANGED <<approved, pending, matches, groups, calls>>

(***************************************************************************)
(* Specification of the readiness of a division: involvements register     *)
(* and are approved, the division is published, the bracket is generated.  *)
(***************************************************************************)
MaxInvolvements == 3      \* involvements of the division, pending and approved

InitReady ==
    /\ division \in [format : Formats, participant_type : {SINGLE, DOUBLES},
                     is_published : {FALSE}]
    /\ approved = 0
    /\ pending = 0
    /\ matches = <<>>
    /\ groups = <<>>
    /\ result = NoResult
    /\ calls = <<>>

ReadyRegister == approved + pending < MaxInvolvements /\ Register

ReadyApprove == Approve

ReadyPublish == Publish

ReadyBracket == GenerateBracket(3, 15)

NextReady == ReadyRegister \/ ReadyApprove \/ ReadyPublish \/ ReadyBracket

SpecReady == InitReady /\ [][NextReady]_vars

\* C16: a bracket generation on a division that has a match, is unpublished,
\* has a pending involvement or has fewer than two approved participants
\* returns an error and creates no match
C16_RefusesUnready ==
    [][( /\ result'.op = "generate_bracket"
         /\ \/ Len(matches) > 0
            \/ ~division.is_published
            \/ pending > 0
            \/ approved < MinParticipantsRequired )
          => (~result'.ok /\ matches' = matches)]_vars

(***************************************************************************)
(* Knockout phase of a round-robin-knockout division                       *)
(* (generate_knockout_phase_from_standings).                               *)
(***************************************************************************)

\* GroupStanding.objects.filter(group__division=division), in primary-key order
RECURSIVE StandingRows(_, _)
StandingRows(gs, g) ==
    IF g > Len(gs) THEN <<>> ELSE gs[g].standings \o StandingRows(gs, g + 1)

\* checks that leave out the completion of the group phase
KnockoutPhaseError_NoPhaseCheck(div, ms, gs) ==
    IF div.format # ROUND_ROBIN_KNOCKOUT THEN "ERROR_INVALID_MATCH_FORMAT"
    ELSE IF Len(StandingRows(gs, 1)) = 0 THEN "ERROR_INSUFFICIENT_PLAYERS_FOR_GENERATION"
    ELSE "ok"

\* the first check that raises
KnockoutPhaseError(div, ms, gs) ==
    IF div.format # ROUND_ROBIN_KNOCKOUT THEN "ERROR_INVALID_MATCH_FORMAT"
    ELSE IF \E k \in 1..Len(ms) : ms[k].round_number < 0 /\ ms[k].status # COMPLETED
         THEN "GROUP_PHASE_INCOMPLETE"
    ELSE IF Len(StandingRows(gs, 1)) = 0 THEN "ERROR_INSUFFICIENT_PLAYERS_FOR_GENERATION"
    ELSE "ok"

\* "Convert standings to participants format", the standings read with
\* order_by('global_position')
StandingParticipants(gs, order, ptype) ==
    LET all == StandingRows(gs, 1)
        rows == IF order = "reverse" THEN Reversed(all) ELSE all
        standings == StableSort(rows, Len(rows), "global_position")
    IN [i \in 1..Len(standings) |->
           [player1 |-> InvPlayer(standings[i].involvement),
            partner1 |-> InvPartnerOf(standings[i].involvement, ptype)]]

\* generate_knockout_phase_from_standings: match_counter restarts at 1, so a
\* second generation fails on its first row (match code M1 exists)
GenerateKnockoutPhase(max_sets, points_per_set) ==
    LET error == KnockoutPhaseError(division, matches, groups)
        st0 == BuilderState(matches, division, max_sets, points_per_set)
    IN /\ \/ /\ error # "ok"
             /\ matches' = matches
             /\ result' = Outcome("generate_knockout_phase", error, <<>>)
          \/ /\ error = "ok"
             /\ \E order \in DbOrders :
                   LET participants == StandingParticipants(groups, order,
                                                            division.participant_type)
                   IN \E perm \in Shuffles(Len(participants)) :
                         CommitView("generate_knockout_phase",
                                       generate_single_elimination_bracket(
                                           st0, Shuffled(participants, perm)))
       /\ UNCHANGED <<division, approved, pending, groups, calls>>

(***************************************************************************)
(* Specification of the standings trigger: the matches of a group of       *)
(* three are scored, each score request calculating the standings or       *)
(* logging the failure of the calculation; the knockout phase is then      *)
(* generated and scored.                                                   *)
(***************************************************************************)
TriggerCounts == {3}

InitTrigger ==
    /\ division \in [format : {ROUND_ROBIN_KNOCKOUT},
                     participant_type : {SINGLE, DOUBLES}, is_published : {TRUE}]
    /\ approved \in TriggerCounts
    /\ pending = 0
    /\ groups = CreatedGroups(distribute_participants([i \in 1..approved |-> i],
                                                      DefaultMinPerGroup,
                                                      DefaultMaxPerGroup))
    /\ matches = generate_group_phase_matches(
                     BuilderState(<<>>, division, 3, 15), groups, 1).ms
    /\ result = NoResult
    /\ calls = <<>>

\* a two-set sweep by either side
TriggerSetsData ==
    {<<SetData(1, pair), SetData(2, pair)>> : pair \in {<<15, 10>>, <<10, 15>>}}

TriggerScores == \E id \in 1..Len(matches), sets_data \in TriggerSetsData :
                     RecordScores(id, sets_data)

TriggerKnockoutPhase == GenerateKnockoutPhase(3, 15)

NextTrigger == TriggerScores \/ TriggerKnockoutPhase

SpecTrigger == InitTrigger /\ [][NextTrigger]_vars

\* the matches whose Set rows a step wrote
Rescored == {id \in 1..Len(matches) : matches'[id].sets # matches[id].sets}

\* C20: a score request of a round-robin-knockout division whose standings
\* calculation failed succeeds all the same: the sets of one match, its status
\* and winner and the slot of its next match are written, the standings are
\* left as they were, and no error is returned
C20_ScoresSurviveFailure ==
    [][(result'.op = "scores" /\ result'.arg = <<"standings_error_logged">>) =>
          /\ result'.ok
          /\ groups' = groups
          /\ \E id \in Rescored :
                LET m == matches'[id]
                IN /\ Rescored = {id}
                   /\ m.status = COMPLETED
                   /\ m.winner \in {m.player1, m.player2}
                   /\ DOMAIN m.sets = {1, 2}
                   /\ \A n \in DOMAIN m.sets :
                         m.sets[n].winner = (IF m.winner = m.player1 THEN PLAYER1
                                             ELSE PLAYER2)
                   /\ (m.next_match # NoMatch /\ m.winner # NoPlayer) =>
                         m.winner \in {matches'[m.next_match].player1,
                                       matches'[m.next_match].player2}
      ]_vars

\* a knockout-phase match of the division is completed, its winner stands in
\* the next match, and the calculation that its score request triggered failed
C20_Witness ==
    /\ result.op = "scores" /\ result.ok
    /\ result.arg = <<"standings_error_logged">>
    /\ division.format = ROUND_ROBIN_KNOCKOUT
    /\ \E id \in 1..Len(matches) :
          /\ matches[id].status = COMPLETED
          /\ matches[id].next_match # NoMatch
          /\ matches[id].winner # NoPlayer
          /\ matches[matches[id].next_match].player2 = matches[id].winner
          /\ \A k \in 1..Len(matches) :
                (k # id /\ matches[k].round_number > 0) => matches[k].status = PENDING

(***************************************************************************)
(* Concurrent requests.  The database runs each transaction READ COMMITTED *)
(* and no request locks a row it reads: a request sees the rows committed  *)
(* when it reads them, keeps its own copies, and writes the copies back    *)
(* with every field (Model.save).  `calls` holds the requests in flight.   *)
(***************************************************************************)
MaxCalls == 2      \* requests in flight

RemoveAt(l, c) == SubSeq(l, 1, c - 1) \o SubSeq(l, c + 1, Len(l))

SetNumbers(sets_data) == {sets_data[k].set_number : k \in 1..Len(sets_data)}

\* MatchViewSet.scores: match = self.get_object(), outside any transaction
ScoreLoad(id, sets_data) ==
    /\ Len(calls) < MaxCalls
    /\ id \in 1..Len(matches)
    /\ calls' = Append(calls, [kind |-> "scores", pc |-> "loaded", id |-> id,
                               sets_data |-> sets_data, status |-> matches[id].status,
                               local |-> <<>>, saved |-> {}])
    /\ UNCHANGED <<division, approved, pending, matches, groups, result>>

\* MatchScoreService.execute up to the point where the next match has been
\* read: validate_match_status on the object the view loaded, the Set rows
\* (a request waits here while another one holds uncommitted rows of the same
\* (match, set_number)), refresh_from_db, calculate_winner, and the copies of
\* the match and of its next match that update_match_status is about to save
ScoreBegin(c) ==
    LET call == calls[c]
        id == call.id
        m == matches[id]
        status_error == ScoreStatusError(call)
        with_sets == [matches EXCEPT
                         ![id].sets = create_or_update_sets(m, call.sets_data, 1)]
        winner == calculate_winner(with_sets[id])
        updated == update_match_status(with_sets, id, winner)
        saved == SavedBy(with_sets, id, winner)
        error == IF status_error # "ok" THEN status_error
                 ELSE IF \E k \in 1..Len(call.sets_data) : ~SetCleanOk(m, call.sets_data[k])
                      THEN "ERROR_SET_NUMBER_EXCEEDS_MAX"
                 ELSE IF \E k \in saved : ~CleanOk(updated[k], division)
                      THEN "ERROR_SAVE_RAISED"
                 ELSE "ok"
    IN /\ c \in 1..Len(calls)
       /\ call.kind = "scores" /\ call.pc = "loaded"
       /\ \A d \in 1..Len(calls) :
             (d # c /\ calls[d].kind = "scores" /\ calls[d].pc = "begun"
                    /\ calls[d].id = id)
                => SetNumbers(calls[d].sets_data) \cap SetNumbers(call.sets_data) = {}
       /\ IF error # "ok"
          THEN /\ calls' = RemoveAt(calls, c)
               /\ result' = Outcome("scores", error, <<>>)
          ELSE /\ calls' = [calls EXCEPT ![c].pc = "begun", ![c].local = updated,
                                         ![c].saved = saved]
               /\ result' = result
       /\ UNCHANGED <<division, approved, pending, matches, groups>>

\* the rows of the database after the request wrote its Set rows and saved
\* its copies of the match and of the next match
Written(ms, call) ==
    [k \in 1..Len(ms) |->
        LET own == [n \in (DOMAIN ms[k].sets) \cup SetNumbers(call.sets_data) |->
                       IF n \in SetNumbers(call.sets_data)
                       THEN call.local[k].sets[n] ELSE ms[k].sets[n]]
        IN IF k = call.id
           THEN (IF k \in call.saved THEN [call.local[k] EXCEPT !.sets = own]
                 ELSE [ms[k] EXCEPT !.sets = own])
           ELSE IF k \in call.saved THEN [call.local[k] EXCEPT !.sets = ms[k].sets]
           ELSE ms[k]]

\* the rest of MatchScoreService.execute: next_match.save(), match.save(),
\* the standings trigger, and the commit
ScoreFinish(c) ==
    LET call == calls[c]
        is_group_format == division.format = ROUND_ROBIN_KNOCKOUT
        written == Written(matches, call)
    IN /\ c \in 1..Len(calls)
       /\ call.kind = "scores" /\ call.pc = "begun"
       /\ \E order \in (IF is_group_format THEN DbOrders ELSE {"pk"}),
             raised \in (IF is_group_format THEN BOOLEAN ELSE {FALSE}) :
             /\ matches' = written
             /\ groups' = trigger_standings_calculation(written, groups, division,
                                                         order, raised)
             /\ result' = Outcome("scores", "ok", TriggerLog(division, raised))
       /\ calls' = RemoveAt(calls, c)
       /\ UNCHANGED <<division, approved, pending>>

\* MatchBracketGenerationService.execute up to validate_participants: the
\* request has seen which matches the division has
BracketBegin ==
    LET participants == get_participants(approved, division.participant_type)
        error == BracketValidationError(division, matches, participants)
    IN /\ Len(calls) < MaxCalls
       /\ IF error # "ok"
          THEN /\ calls' = calls
               /\ result' = Outcome("generate_bracket", error, <<>>)
          ELSE /\ calls' = Append(calls, [kind |-> "bracket", pc |-> "validated",
                                          id |-> 0, sets_data |-> <<>>,
                                          status |-> PENDING, local |-> <<>>,
                                          saved |-> {}])
               /\ result' = result
       /\ UNCHANGED <<division, approved, pending, matches, groups>>

\* the rest of MatchBracketGenerationService.execute: the rows are created
\* (a creation raises when the division has a committed row with its match
\* code) and committed, or none is kept
BracketFinish(c, max_sets, points_per_set) ==
    LET participants == get_participants(approved, division.participant_type)
        st0 == BuilderState(matches, division, max_sets, points_per_set)
    IN /\ c \in 1..Len(calls)
       /\ calls[c].kind = "bracket" /\ calls[c].pc = "validated"
       /\ division.format \in {KNOCKOUT, DOUBLE_SLASH}
       /\ \E perm \in Shuffles(approved) :
             CommitBracket("generate_bracket",
                           IF division.format = KNOCKOUT
                           THEN generate_single_elimination_bracket(
                                    st0, Shuffled(participants, perm))
                           ELSE generate_double_elimination_bracket(
                                    st0, Shuffled(participants, perm)))
       /\ calls' = RemoveAt(calls, c)
       /\ UNCHANGED <<division, approved, pending, groups>>

(***************************************************************************)
(* Specification of concurrent score requests: the bracket of a published  *)
(* knockout division of four participants is generated in registration     *)
(* order; score requests that complete a match run with at most MaxCalls   *)
(* of them in flight.                                                      *)
(***************************************************************************)
RaceCounts == {4}

InitRace ==
    /\ division \in [format : {KNOCKOUT}, participant_type : {SINGLE, DOUBLES},
                     is_published : {TRUE}]
    /\ approved \in RaceCounts
    /\ pending = 0
    /\ matches = generate_single_elimination_bracket(
                     BuilderState(<<>>, division, 3, 15),
                     get_participants(approved, division.participant_type)).ms
    /\ groups = <<>>
    /\ result = NoResult
    /\ calls = <<>>

\* a two-set sweep by either side
RaceSetsData ==
    {<<SetData(1, pair), SetData(2, pair)>> : pair \in {<<15, 10>>, <<10, 15>>}}

RaceScoreLoad == \E id \in 1..Len(matches), sets_data \in RaceSetsData :
                     ScoreLoad(id, sets_data)

RaceScoreBegin == \E c \in 1..Len(calls) : ScoreBegin(c)

RaceScoreFinish == \E c \in 1..Len(calls) : ScoreFinish(c)

NextRace == RaceScoreLoad \/ RaceScoreBegin \/ RaceScoreFinish

SpecRace == InitRace /\ [][NextRace]_vars

(***************************************************************************)
(* Specification of concurrent bracket generations on a published          *)
(* knockout or double-elimination division of two to four participants.    *)
(***************************************************************************)
GenCounts == {2, 3, 4}

InitGen ==
    /\ division \in [format : {KNOCKOUT, DOUBLE_SLASH},
                     participant_type : {SINGLE, DOUBLES}, is_published : {TRUE}]
    /\ approved \in GenCounts
    /\ pending = 0
    /\ matches = <<>>
    /\ groups = <<>>
    /\ result = NoResult
    /\ calls = <<>>

GenBegin == BracketBegin

GenFinish == \E c \in 1..Len(calls) : BracketFinish(c, 3, 15)

NextGen == GenBegin \/ GenFinish

SpecGen == InitGen /\ [][NextGen]_vars

\* C17: whatever two score requests of one match do concurrently, the state
\* is one that a serial execution leaves: of a completed match with a next
\* match only the winner stands in the next match, and in one slot only
C17_SameMatchSerial ==
    \A id \in 1..Len(matches) :
        LET m == matches[id]
        IN (m.status = COMPLETED /\ m.next_match # NoMatch /\ m.winner # NoPlayer) =>
              LET next == matches[m.next_match]
              IN /\ ~(next.player1 = m.winner /\ next.player2 = m.winner)
                 /\ \A pl \in {m.player1, m.player2} \ {m.winner, NoPlayer} :
                       pl \notin {next.player1, next.player2}

\* C18: when two matches with the same next match are both completed, the
\* next match holds both winners, one in each slot
C18_BothWinnersKept ==
    \A a, b \in 1..Len(matches) :
        ( /\ a # b
          /\ matches[a].status = COMPLETED /\ matches[b].status = COMPLETED
          /\ matches[a].next_match # NoMatch
          /\ matches[a].next_match = matches[b].next_match
          /\ matches[a].winner # NoPlayer /\ matches[b].winner # NoPlayer )
        => {matches[matches[a].next_match].player1,
            matches[matches[a].next_match].player2}
             = {matches[a].winner, matches[b].winner}

\* C19: a bracket generation commits matches only into a division that has
\* none, however two generations interleave: the division never holds the
\* matches of two generations
C19_OneGenerationCommits ==
    [][(result'.op = "generate_bracket" /\ matches' # matches) =>
          (result'.ok /\ matches = <<>>)]_vars

\* a generation that passed the check for existing matches was refused at
\* its first row because another generation had committed in between
C19_Witness ==
    /\ result.op = "generate_bracket"
    /\ result.error = "ERROR_SAVE_RAISED"
    /\ Len(matches) > 0
    /\ calls = <<>>

(***************************************************************************)
(* Specification of the knockout phase: a published division of any        *)
(* format.  A round-robin-knockout division has no group yet, or its       *)
(* groups drawn in registration order without group matches, or its group  *)
(* matches generated and some of them played, the standings calculated or  *)
(* not; a knockout division has no match yet or its bracket.  The knockout *)
(* phase is then requested, and requested again.                           *)
(***************************************************************************)
KnockCounts == {3, 4}

\* a two-set sweep by either side
KnockSetsData ==
    {<<SetData(1, pair), SetData(2, pair)>> : pair \in {<<15, 10>>, <<10, 15>>}}

InitKnock ==
    /\ division \in [format : Formats, participant_type : {SINGLE, DOUBLES},
                     is_published : {TRUE}]
    /\ approved \in KnockCounts
    /\ pending = 0
    /\ result = NoResult
    /\ calls = <<>>
    /\ LET drawn == CreatedGroups(distribute_participants(
                        [i \in 1..approved |-> i], DefaultMinPerGroup,
                        DefaultMaxPerGroup))
           created == generate_group_phase_matches(
                          BuilderState(<<>>, division, 3, 15), drawn, 1).ms
           bracket == generate_single_elimination_bracket(
                          BuilderState(<<>>, division, 3, 15),
                          get_participants(approved, division.participant_type)).ms
       IN \/ /\ groups = <<>>
             /\ matches = <<>>
          \/ /\ division.format = KNOCKOUT
             /\ groups = <<>>
             /\ matches = bracket
          \/ /\ division.format = ROUND_ROBIN_KNOCKOUT
             /\ groups = drawn
             /\ matches = <<>>
          \/ /\ division.format = ROUND_ROBIN_KNOCKOUT
             /\ \E played \in [1..Len(created) -> KnockSetsData \cup {<<>>}] :
                   /\ matches = PlayedOut(created, played, 1)
                   /\ \/ groups = drawn
                      \/ groups = calculate_global_standings(
                                      matches, drawn, "pk", division.participant_type)

KnockPhase == GenerateKnockoutPhase(3, 15)

NextKnock == KnockPhase

SpecKnock == InitKnock /\ [][NextKnock]_vars

\* C21: a request for the knockout phase returns an error and creates no
\* match when the division is not round-robin-knockout, when one of its
\* group-phase matches (round number below zero) is not completed, or when
\* the division has no standing
C21_RefusesIncomplete ==
    [][(\/ division.format # ROUND_ROBIN_KNOCKOUT
        \/ \E k \in 1..Len(matches) :
              matches[k].round_number < 0 /\ matches[k].status # COMPLETED
        \/ \A g \in 1..Len(groups) : Len(groups[g].standings) = 0)
       => /\ result'.op = "generate_knockout_phase"
          /\ ~result'.ok
          /\ matches' = matches
      ]_vars

\* the request was refused with a group phase that is partly played: one
\* group match completed, another still pending, no knockout match
C21_Witness ==
    /\ result.op = "generate_knockout_phase"
    /\ result.error = "GROUP_PHASE_INCOMPLETE"
    /\ \E k \in 1..Len(matches) : matches[k].status = COMPLETED
    /\ \E k \in 1..Len(matches) : matches[k].status = PENDING
    /\ \A k \in 1..Len(matches) : matches[k].round_number < 0

(***************************************************************************)
(* Specification of the three bracket builders: a published knockout or    *)
(* double-elimination division without matches, or a round-robin-knockout  *)
(* division whose groups are drawn in registration order, its group phase  *)
(* either not generated or played to the end (every match swept by its     *)
(* first player) with the standings calculated.                            *)
(***************************************************************************)
\* every match of ms played: a two-set sweep by player 1
SweptOut(ms) ==
    PlayedOut(ms, [k \in 1..Len(ms) |-> <<SetData(1, <<15, 10>>), SetData(2, <<15, 10>>)>>], 1)

InitLinks ==
    /\ division \in [format : {KNOCKOUT, DOUBLE_SLASH, ROUND_ROBIN_KNOCKOUT},
                     participant_type : {SINGLE, DOUBLES}, is_published : {TRUE}]
    /\ approved \in MinParticipantsRequired..MaxN
    /\ pending = 0
    /\ result = NoResult
    /\ calls = <<>>
    /\ IF division.format = ROUND_ROBIN_KNOCKOUT
       THEN /\ approved >= MinGroupSize
            /\ LET drawn == CreatedGroups(distribute_participants(
                                [i \in 1..approved |-> i], DefaultMinPerGroup,
                                DefaultMaxPerGroup))
                   created == generate_group_phase_matches(
                                  BuilderState(<<>>, division, 3, 15), drawn, 1).ms
               IN \/ /\ groups = drawn
                     /\ matches = <<>>
                  \/ /\ matches = SweptOut(created)
                     /\ groups = calculate_global_standings(
                                     matches, drawn, "pk", division.participant_type)
       ELSE /\ groups = <<>>
            /\ matches = <<>>

LinksBracket == GenerateBracket(3, 15)

LinksKnockoutPhase == GenerateKnockoutPhase(3, 15)

NextLinks == LinksBracket \/ LinksKnockoutPhase

SpecLinks == InitLinks /\ [][NextLinks]_vars

\* the match reached from id by following next_match k times (NoMatch when
\* the chain ends before)
RECURSIVE Follow(_, _)
Follow(id, k) ==
    IF k = 0 \/ id = NoMatch THEN id ELSE Follow(matches[id].next_match, k - 1)

\* C22: the next match of a match created by the single-elimination, the
\* double-elimination or the knockout-from-standings builder is a match of
\* the division with a strictly greater round number (999 for the grand
\* final); no match is its own next match and no chain of next matches
\* comes back to its start
C22_ForwardLinks ==
    \A id \in 1..Len(matches) :
       /\ matches[id].next_match # NoMatch =>
             /\ matches[id].next_match \in 1..Len(matches)
             /\ matches[id].next_match # id
             /\ matches[matches[id].next_match].round_number > matches[id].round_number
       /\ \A k \in 1..Len(matches) : Follow(id, k) # id
       /\ Follow(id, Len(matches)) = NoMatch

\* a double-elimination bracket with a preliminary round: a losers-bracket
\* match and a winners-bracket match point to the grand final, and a
\* preliminary match points into the first main round
C22_Witness ==
    /\ result.op = "generate_bracket" /\ result.ok
    /\ division.format = DOUBLE_SLASH
    /\ \E gf \in 1..Len(matches) :
          /\ matches[gf].round_number = GrandFinalRound
          /\ \E a \in 1..Len(matches), b \in 1..Len(matches) :
                /\ matches[a].is_losers_bracket /\ matches[a].next_match = gf
                /\ ~matches[b].is_losers_bracket /\ matches[b].next_match = gf
    /\ \E a \in 1..Len(matches) :
          /\ matches[a].round_number = 1 /\ ~matches[a].is_losers_bracket
          /\ matches[a].next_match # NoMatch
          /\ matches[matches[a].next_match].round_number = 2

(***************************************************************************)
(* Specification of a played single-elimination bracket: the bracket of a  *)
(* published knockout division is generated, then a decisive result (a     *)
(* two-set sweep by either side) is recorded for a pending match whose two *)
(* player slots are filled, for as long as there is such a match.          *)
(***************************************************************************)
MaxLiveN == 7      \* approved participants of the played bracket

InitLive ==
    /\ division \in [format : {KNOCKOUT}, participant_type : {SINGLE, DOUBLES},
                     is_published : {TRUE}]
    /\ approved \in MinParticipantsRequired..MaxLiveN
    /\ pending = 0
    /\ matches = <<>>
    /\ groups = <<>>
    /\ calls = <<>>
    /\ result = NoResult

\* both player slots of match id are filled and no result is recorded yet
Playable(id) ==
    /\ matches[id].status = PENDING
    /\ matches[id].player1 # NoPlayer
    /\ matches[id].player2 # NoPlayer

LiveBracket == GenerateBracket(3, 15)

LiveScores ==
    \E id \in 1..Len(matches), pair \in {<<15, 10>>, <<10, 15>>} :
       /\ Playable(id)
       /\ RecordScores(id, <<SetData(1, pair), SetData(2, pair)>>)

NextLive == LiveBracket \/ LiveScores

SpecLive == InitLive /\ [][NextLive]_vars

\* C23: in a single-elimination bracket in which every match gets a
\* decisive result as soon as both of its slots are filled, the play cannot
\* stop before the end: once no match is left to play, every match of the
\* bracket, the final included, is completed and none has an empty slot
C23_BracketPlaysOut ==
    (matches # <<>> /\ \A id \in 1..Len(matches) : ~Playable(id)) =>
        \A id \in 1..Len(matches) :
           /\ matches[id].status = COMPLETED
           /\ matches[id].player1 # NoPlayer
           /\ matches[id].player2 # NoPlayer

(***************************************************************************)
(* Specification of the feeders: the bracket of a published knockout or    *)
(* double-elimination division with up to thirteen approved participants   *)
(* (five preliminary matches, hence three first-round losers matches).     *)
(***************************************************************************)
MaxFeedN == 13     \* approved participants

InitFeed ==
    /\ division \in [format : {KNOCKOUT, DOUBLE_SLASH},
                     participant_type : {SINGLE, DOUBLES}, is_published : {TRUE}]
    /\ approved \in MinParticipantsRequired..MaxFeedN
    /\ pending = 0
    /\ matches = <<>>
    /\ groups = <<>>
    /\ calls = <<>>
    /\ result = NoResult

FeedBracket == GenerateBracket(3, 15)

NextFeed == FeedBracket

SpecFeed == InitFeed /\ [][NextFeed]_vars

\* C24: in a generated single- or double-elimination bracket, the matches
\* that point to a match B and the slots of B filled at build time are at
\* most two together, so that B has an empty slot for the winner of each
\* of its feeders
C24_FeedersFit ==
    \A b \in 1..Len(matches) :
       Cardinality(Feeders(b)) + (2 - EmptySlots(matches[b])) <= 2

(***************************************************************************)
(* Specification of the failing builders.  A match is also created by hand *)
(* (MatchCreationService): an empty second-round match with a match code  *)
(* of the builders' numbering, M2 or G1-M2.  A builder that runs after it  *)
(* writes its first row and raises on the second; for GenerateBracket,     *)
(* which refuses a division with matches, the hand-made match is           *)
(* committed between the validation and the creation of the rows.          *)
(***************************************************************************)
MaxManual == 1     \* matches created by hand

AtomicCounts == {3, 4}

ManualCodes == {MatchCode("M", 0, 2), MatchCode("G", 1, 2)}

\* MatchValidator.validate_match_creation_rules for a match without players:
\* the first rule that raises
MatchCreationError(div, ms, code, max_sets, points_per_set) ==
    IF ~div.is_published THEN "ERROR_DIVISION_NOT_PUBLISHED"
    ELSE IF \E k \in 1..Len(ms) : ms[k].match_code = code
         THEN "ERROR_MATCH_CODE_ALREADY_EXISTS"
    ELSE IF max_sets \notin 3..10 \/ points_per_set \notin 1..50
         THEN "ERROR_INVALID_MATCH_CONFIGURATION"
    ELSE "ok"

\* MatchCreationService.execute for a match without players
CreateMatch(code, round_number) ==
    LET error == MatchCreationError(division, matches, code, 5, 15)
        m == NewMatch(code, round_number, NoPlayer, NoPlayer, NoPlayer, NoPlayer,
                      FALSE, division.participant_type, 5, 15)
    IN /\ IF error # "ok"
          THEN /\ matches' = matches
               /\ result' = Outcome("create_match", error, <<>>)
          ELSE IF ~CleanOk(m, division)
          THEN /\ matches' = matches
               /\ result' = Outcome("create_match", "ERROR_SAVE_RAISED", <<>>)
          ELSE /\ matches' = Append(matches, m)
               /\ result' = Outcome("create_match", "ok", <<>>)
       /\ UNCHANGED <<division, approved, pending, groups, calls>>

InitAtomic ==
    /\ division \in [format : {KNOCKOUT, DOUBLE_SLASH, ROUND_ROBIN_KNOCKOUT},
                     participant_type : {SINGLE, DOUBLES}, is_published : {TRUE}]
    /\ approved \in AtomicCounts
    /\ pending = 0
    /\ result = NoResult
    /\ calls = <<>>
    /\ IF division.format = ROUND_ROBIN_KNOCKOUT
       THEN LET drawn == CreatedGroups(distribute_participants(
                             [i \in 1..approved |-> i], DefaultMinPerGroup,
                             DefaultMaxPerGroup))
                created == generate_group_phase_matches(
                               BuilderState(<<>>, division, 3, 15), drawn, 1).ms
            IN \/ /\ groups = drawn
                  /\ matches = <<>>
               \/ /\ matches = SweptOut(created)
                  /\ groups = calculate_global_standings(
                                  matches, drawn, "pk", division.participant_type)
       ELSE /\ groups = <<>>
            /\ matches = <<>>

\* the matches created by hand
Manual == {k \in 1..Len(matches) : matches[k].max_sets = 5}

AtomicCreate ==
    /\ Cardinality(Manual) < MaxManual
    /\ \E code \in ManualCodes : CreateMatch(code, 2)

AtomicBegin == BracketBegin

AtomicFinish == \E c \in 1..Len(calls) : BracketFinish(c, 3, 15)

AtomicGroupPhase == GenerateGroupPhase(3, 15)

AtomicKnockoutPhase == GenerateKnockoutPhase(3, 15)

NextAtomic ==
    AtomicCreate \/ AtomicBegin \/ AtomicFinish \/ AtomicGroupPhase \/ AtomicKnockoutPhase

SpecAtomic == InitAtomic /\ [][NextAtomic]_vars

Uncalculated(gs) ==
    [g \in 1..Len(gs) |->
        [gs[g] EXCEPT !.standings =
            [k \in 1..Len(gs[g].standings) |->
                NewStanding(gs[g].standings[k].involvement)]]]

\* C26: the standings that a calculation stores depend only on the groups
\* and the completed matches: they are those of a calculation over the same
\* matches that starts from standings without positions, whatever
\* positions the standings had before
C26_PureFunction ==
    (result.op = "scores" /\ result.arg = <<"standings_calculated">>) =>
        \E order \in DbOrders :
           groups = calculate_global_standings(
                        matches, Uncalculated(groups), order,
                        division.participant_type)

(***************************************************************************)
(* Specification of the sets of one match: the bracket of a published      *)
(* knockout division of two participants is generated with any allowed     *)
(* max_sets, and the sets of its match are recorded in their order, one    *)
(* request at a time, each with a decisive score.                          *)
(***************************************************************************)
\* validators of Match.max_sets
AllowedMaxSets == 3..10

InitSets ==
    /\ division \in [format : {KNOCKOUT}, participant_type : {SINGLE},
                     is_published : {TRUE}]
    /\ approved = MinParticipantsRequired
    /\ pending = 0
    /\ matches = <<>>
    /\ groups = <<>>
    /\ calls = <<>>
    /\ result = NoResult

SetsBracket == \E max_sets \in AllowedMaxSets : GenerateBracket(max_sets, 15)

\* the next set of the match, or the set after the last one allowed
SetsScore ==
    \E pair \in {<<15, 10>>, <<10, 15>>} :
       /\ Len(matches) > 0
       /\ RecordScores(1, <<SetData(Cardinality(DOMAIN matches[1].sets) + 1, pair)>>)

NextSets == SetsBracket \/ SetsScore

SpecSets == InitSets /\ [][NextSets]_vars

\* C27: for every allowed max_sets, a match whose max_sets sets are all
\* recorded with a winner is completed
C27_DecidedIsCompleted ==
    \A id \in 1..Len(matches) :
       (\A n \in 1..matches[id].max_sets :
           /\ n \in DOMAIN matches[id].sets
           /\ matches[id].sets[n].winner # NoWinner)
       => matches[id].status = COMPLETED

(***************************************************************************)
(* Seeding of the single-elimination bracket, under the specification of   *)
(* the builders.                                                           *)
(***************************************************************************)
\* K: the largest power of two not above the number of participants
SeedK == CHOOSE k \in {1, 2, 4, 8, 16} : k <= approved /\ approved < 2 * k

SeedExcess == approved - SeedK

\* the preliminary matches and the matches of the first main round
SeedPreliminary ==
    IF SeedExcess > 0 THEN {id \in MatchIds : matches[id].round_number = 1} ELSE {}

SeedFirstMain ==
    {id \in MatchIds : matches[id].round_number = (IF SeedExcess > 0 THEN 2 ELSE 1)}

\* the slots (match, side) whose player is set
SeedFilled(ids) ==
    {<<id, 1>> : id \in {i \in ids : matches[i].player1 # NoPlayer}}
    \cup {<<id, 2>> : id \in {i \in ids : matches[i].player2 # NoPlayer}}

\* the slots that hold the player of involvement i
SeedSlotsOf(i) ==
    {<<id, 1>> : id \in {k \in MatchIds : matches[k].player1 = InvPlayer(i)}}
    \cup {<<id, 2>> : id \in {k \in MatchIds : matches[k].player2 = InvPlayer(i)}}

\* what the claim and its amendment share: excess preliminary matches of
\* two real participants each, excess empty slots in the first main round,
\* every participant in exactly one slot
SeedShape ==
    /\ Cardinality(SeedPreliminary) = SeedExcess
    /\ \A id \in SeedPreliminary :
          matches[id].player1 # NoPlayer /\ matches[id].player2 # NoPlayer
    /\ 2 * Cardinality(SeedFirstMain) - Cardinality(SeedFilled(SeedFirstMain))
          = SeedExcess
    /\ \A i \in 1..approved : Cardinality(SeedSlotsOf(i)) = 1

\* C28 as stated: the single-elimination builder creates excess preliminary
\* matches of two real participants, places exactly K - 2*excess
\* participants directly in the first main round and leaves excess of its
\* slots empty, every participant being in exactly one slot
C28_DirectSeeds ==
    BracketBuilt(KNOCKOUT) =>
        /\ SeedShape
        /\ Cardinality(SeedFilled(SeedFirstMain)) = SeedK - 2 * SeedExcess

\* C28 amended: the participants placed directly in the first main round
\* are K - excess (its K slots less the excess slots kept for the winners
\* of the preliminary matches); the rest is as stated
C28_DirectSeedsAmended ==
    BracketBuilt(KNOCKOUT) =>
        /\ SeedShape
        /\ Cardinality(SeedFilled(SeedFirstMain)) = SeedK - SeedExcess

\* a bracket of eleven: three preliminary matches, five participants
\* placed directly, three slots of the first main round left empty
C28_Witness ==
    /\ BracketBuilt(KNOCKOUT)
    /\ approved = 11
    /\ Cardinality(SeedPreliminary) = 3
    /\ Cardinality(SeedFilled(SeedFirstMain)) = 5

(***************************************************************************)
(* Seed order of the knockout phase, under the specification of the        *)
(* knockout-phase requests.                                                *)
(***************************************************************************)
\* the matches of the single-elimination bracket seeded with the standings
\* in the order of their global position, as row order `order` reads them
SeededByPosition(order) ==
    generate_single_elimination_bracket(
        BuilderState(matches, division, 3, 15),
        StandingParticipants(groups, order, division.participant_type)).ms

\* C29: a knockout phase generated from calculated standings seeds the
\* bracket in the order of the global positions, so that the participants of
\* its matches and slots are determined by the standings alone
C29_SeededByPosition ==
    [][(/\ result'.op = "generate_knockout_phase" /\ result'.ok
        /\ \A g \in 1..Len(groups) : \A i \in 1..Len(groups[g].standings) :
              groups[g].standings[i].global_position > 0) =>
          \E order \in DbOrders : matches' = SeededByPosition(order)]_vars

(***************************************************************************)
(* Numbering of the standings, under the specification of the standings    *)
(* calculations.                                                           *)
(***************************************************************************)
\* the standing rows of the division as (group index, row index)
StandingSlots == {<<g, i>> \in (1..Len(groups)) \X (1..MaxN) :
                     i <= Len(groups[g].standings)}

\* C30: after a calculation the position_in_group values of each group of n
\* standings are exactly 1..n, the global_position values of the M standings
\* of the division are exactly 1..M, none twice, and of two standings of a
\* group the one with the smaller position_in_group has the smaller
\* global_position
C30_Numbering ==
    (result.op = "standings" /\ result.ok) =>
        /\ \A g \in 1..Len(groups) :
              LET st == groups[g].standings
              IN /\ {st[i].position_in_group : i \in 1..Len(st)} = 1..Len(st)
                 /\ \A i, j \in 1..Len(st) :
                       st[i].position_in_group < st[j].position_in_group
                          => st[i].global_position < st[j].global_position
        /\ {groups[s[1]].standings[s[2]].global_position : s \in StandingSlots}
              = 1..Cardinality(StandingSlots)

\* calculated standings of two groups: two standings of the first group are
\* equal on the three keys, and a standing of the second group is numbered
\* between two of the first in the division
C30_Witness ==
    /\ result.op = "standings" /\ result.ok
    /\ Len(groups) = 2
    /\ LET a == groups[1].standings
           b == groups[2].standings
       IN /\ \E i, j \in 1..Len(a) : i # j /\ SameKeys(a[i], a[j])
          /\ \E i, j \in 1..Len(a) : \E k \in 1..Len(b) :
                /\ a[i].global_position < b[k].global_position
                /\ b[k].global_position < a[j].global_position

====
